---- MODULE Spec2Model ----
(***************************************************************************)
(* Earthquake aggregation service (services/earthquake_cache.py).          *)
(*                                                                         *)
(* Units.  Times are integer milliseconds, as in the code.  Magnitudes,    *)
(* latitudes and longitudes are fixed-point integers in hundredths         *)
(* (4.25 is 425, 0.2 degrees is 20), so the tolerances keep their          *)
(* inclusive comparisons; binary floating-point rounding of the decimal    *)
(* literals is not modelled.  A missing (None) field is the value None.    *)
(* A match_group of 0 is "no match_group"; n > 0 is the string "match-n".  *)
(* An absent properties.source is "".                                      *)
(***************************************************************************)
EXTENDS Integers, Sequences, FiniteSets, TLC

VARIABLES
    \* ---- pair specification (SpecPair): _find_match / _merge_features on two events
    evA, evB,        \* the two events
    pairMatch,       \* result of _find_match(evB, [evA]); -1 before the call
    pairAB,          \* result of _merge_features([evA], [evB]); <<>> before the call
    pairBA,          \* result of _merge_features([evB], [evA]); <<>> before the call
    \* ---- scan specification (SpecScan): _find_match on a two-event merged list
    scan,            \* merged list, incoming event, the two results
    \* ---- fusion specification (SpecFuse): the two _merge_features passes
    fBase, fKand, fEmsc,   \* the three provider lists
    fOut,                  \* fused list
    fpc,                   \* "off" | "ready" | "fused"
    \* ---- key specification (SpecKey): _build_cache_key on two parameter maps
    kpA, kpB,        \* the two parameter maps, in insertion order
    keyA, keyB,      \* their cache keys; NoKey before the call
    \* ---- system specification (Spec)
    now,             \* clock, seconds
    cache,           \* self._cache: entries [key, obj, expires]
    heap,            \* payload dicts by object identity
    calls,           \* get_earthquakes calls made so far
    proc,            \* the calls in progress, one per coroutine
    served,          \* per key: the payload returned by the latest call that
                     \* stored the entry, and when
    \* ---- HTTP specification (SpecHttp): the /earthquakes router
    http,            \* one request: endpoint, query, handler result, response
    \* ---- Kandilli specification (SpecKandilli): parser and adapter filter
    kand,            \* one text: lines, parsed features, filtered features
    \* ---- Kandilli fetch specification (SpecFetch): _fetch_kandilli_text
    kf,              \* requests sent, answers received, text, what gather got
    \* ---- text analysis specification (SpecAnalyze): POST /analyze
    an,              \* one request: text, analysis type, response
    \* ---- PDF download specification (SpecPdf): GET /pdf/download/{file_id}
    pdf,             \* registry, files on disk, the download requests
    \* ---- rate limiter specification (SpecRate): RateLimitMiddleware
    rl               \* clock, request_counts, what became of each request

pairVars == <<evA, evB, pairMatch, pairAB, pairBA>>
scanVars == <<scan>>
matchVars == <<pairVars, scanVars>>
fuseVars == <<fBase, fKand, fEmsc, fOut, fpc>>
keyVars == <<kpA, kpB, keyA, keyB>>
sysVars == <<now, cache, heap, calls, proc, served>>
httpVars == <<http>>
kandVars == <<kand>>
fetchVars == <<kf>>
adapterVars == <<kandVars, fetchVars>>
anVars == <<an>>
pdfVars == <<pdf>>
rlVars == <<rl>>
webVars == <<anVars, pdfVars, rlVars>>
vars == <<matchVars, fuseVars, keyVars, sysVars, httpVars, adapterVars, webVars>>

HttpIdle == http = [pc |-> "off"]
KandIdle == kand = [pc |-> "off"]
FetchIdle == kf = [pc |-> "off"]
ScanIdle == scan = [pc |-> "off"]
AnIdle == an = [pc |-> "off"]
PdfIdle == pdf = [pc |-> "off"]
RlIdle == rl = [pc |-> "off"]
WebIdle == AnIdle /\ PdfIdle /\ RlIdle

None == -1000000000

\* EarthquakeCache class constants
TIME_TOLERANCE_MS == 5 * 60 * 1000
COORD_TOLERANCE_DEG == 20
MAG_TOLERANCE == 30

Abs(x) == IF x < 0 THEN -x ELSE x

SetMin(S) == CHOOSE x \in S : \A y \in S : x <= y

Feature(id, time, mag, lat, lon, source) ==
    [id |-> id, time |-> time, mag |-> mag, lat |-> lat, lon |-> lon,
     source |-> source, match_group |-> 0]

(***************************************************************************)
(* _find_match: the index in `existing` of the returned item, 0 for None.  *)
(***************************************************************************)
HasRequired(f) ==
    f.time # None /\ f.mag # None /\ f.lat # None /\ f.lon # None

WithinToleranceStrict(cand, item) ==
    /\ Abs(item.time - cand.time) < TIME_TOLERANCE_MS
    /\ Abs(item.mag - cand.mag) < MAG_TOLERANCE
    /\ Abs(item.lat - cand.lat) < COORD_TOLERANCE_DEG
    /\ Abs(item.lon - cand.lon) < COORD_TOLERANCE_DEG

WithinToleranceNoLon(cand, item) ==
    /\ ~(Abs(item.time - cand.time) > TIME_TOLERANCE_MS)
    /\ ~(Abs(item.mag - cand.mag) > MAG_TOLERANCE)
    /\ ~(Abs(item.lat - cand.lat) > COORD_TOLERANCE_DEG)

WithinTolerance(cand, item) ==
    /\ ~(Abs(item.time - cand.time) > TIME_TOLERANCE_MS)
    /\ ~(Abs(item.mag - cand.mag) > MAG_TOLERANCE)
    /\ ~(Abs(item.lat - cand.lat) > COORD_TOLERANCE_DEG)
    /\ ~(Abs(item.lon - cand.lon) > COORD_TOLERANCE_DEG)

\* the id comparison made inside the scan: the first item that has the same
\* id or is within the tolerances
FindMatchOneScan(candidate, existing) ==
    LET hit == {i \in 1..Len(existing) :
                   \/ candidate.id # "" /\ existing[i].id = candidate.id
                   \/ /\ HasRequired(candidate)
                      /\ HasRequired(existing[i])
                      /\ WithinTolerance(candidate, existing[i])}
    IN  IF hit # {} THEN SetMin(hit) ELSE 0

\* the tolerance scan returning the item nearest in time instead of the first
FindMatchNearest(candidate, existing) ==
    LET sameId == {i \in 1..Len(existing) : existing[i].id = candidate.id}
        close  == {i \in 1..Len(existing) :
                      /\ HasRequired(existing[i])
                      /\ WithinTolerance(candidate, existing[i])}
        gap(i) == Abs(existing[i].time - candidate.time)
    IN  IF candidate.id # "" /\ sameId # {} THEN SetMin(sameId)
        ELSE IF ~HasRequired(candidate) THEN 0
        ELSE IF close # {}
        THEN SetMin({i \in close : \A j \in close : gap(i) <= gap(j)})
        ELSE 0

\* the tolerance scan without the `is None` tests of lines 473-474 and 483-484
FindMatchNoNoneTests(candidate, existing) ==
    LET sameId == {i \in 1..Len(existing) : existing[i].id = candidate.id}
        close  == {i \in 1..Len(existing) : WithinTolerance(candidate, existing[i])}
    IN  IF candidate.id # "" /\ sameId # {} THEN SetMin(sameId)
        ELSE IF close # {} THEN SetMin(close)
        ELSE 0

FindMatch(candidate, existing) ==
    LET sameId == {i \in 1..Len(existing) : existing[i].id = candidate.id}
        close  == {i \in 1..Len(existing) :
                      /\ HasRequired(existing[i])
                      /\ WithinTolerance(candidate, existing[i])}
    IN  IF candidate.id # "" /\ sameId # {} THEN SetMin(sameId)
        ELSE IF ~HasRequired(candidate) THEN 0
        ELSE IF close # {} THEN SetMin(close)
        ELSE 0

(***************************************************************************)
(* _merge_features.  The loop state is the merged list and group_counter.  *)
(***************************************************************************)
\* an assignment in place of setdefault
SetDefaultSourceOverwrites(f) == [f EXCEPT !.source = "USGS"]

SetDefaultSource(f) ==
    IF f.source = "" THEN [f EXCEPT !.source = "USGS"] ELSE f

RECURSIVE MergeBase(_)
MergeBase(base_features) ==
    IF base_features = <<>> THEN <<>>
    ELSE <<SetDefaultSource(Head(base_features))>> \o MergeBase(Tail(base_features))

MergeOneDropMatched(st, feature) ==
    LET m == FindMatch(feature, st.merged)
    IN  IF m = 0 THEN [st EXCEPT !.merged = Append(st.merged, feature)] ELSE st

\* every match generates an identifier, also for a matched event that has one
MergeOneAlwaysNewGroup(st, feature) ==
    LET m == FindMatch(feature, st.merged)
    IN  IF m = 0
        THEN [st EXCEPT !.merged = Append(st.merged, feature)]
        ELSE [merged |->
                 Append([st.merged EXCEPT ![m].match_group = st.group_counter],
                        [feature EXCEPT !.match_group = st.group_counter]),
              group_counter |-> st.group_counter + 1]

MergeOne(st, feature) ==
    LET m == FindMatch(feature, st.merged)
    IN  IF m = 0
        THEN [st EXCEPT !.merged = Append(st.merged, feature)]
        ELSE IF st.merged[m].match_group # 0
        THEN [st EXCEPT !.merged =
                 Append(st.merged,
                        [feature EXCEPT !.match_group = st.merged[m].match_group])]
        ELSE [merged |->
                 Append([st.merged EXCEPT ![m].match_group = st.group_counter],
                        [feature EXCEPT !.match_group = st.group_counter]),
              group_counter |-> st.group_counter + 1]

RECURSIVE MergeLoop(_, _)
MergeLoop(st, incoming) ==
    IF incoming = <<>> THEN st
    ELSE MergeLoop(MergeOne(st, Head(incoming)), Tail(incoming))

MergeFeatures(base_features, incoming_features) ==
    MergeLoop([merged |-> MergeBase(base_features), group_counter |-> 1],
              incoming_features).merged

\* get_earthquakes, the two fusion passes: Kandilli first, then EMSC
FuseFeatures(data_features, kandilli_features, emsc_features) ==
    MergeFeatures(MergeFeatures(data_features, kandilli_features), emsc_features)

(***************************************************************************)
(* Ghost definitions used to state the fusion claims: for position i of a  *)
(* fused list whose first nBase entries were the base list, the position   *)
(* _find_match returned when entry i was the incoming feature (0: none).   *)
(* _find_match reads neither match_group nor source, so it can be          *)
(* evaluated on the finished list.                                         *)
(***************************************************************************)
LinkOf(out, nBase, i) ==
    IF i <= nBase THEN 0 ELSE FindMatch(out[i], SubSeq(out, 1, i - 1))

RECURSIVE RootOf(_, _, _)
RootOf(out, nBase, i) ==
    IF LinkOf(out, nBase, i) = 0 THEN i
    ELSE RootOf(out, nBase, LinkOf(out, nBase, i))

StripGroup(fs) == [i \in 1..Len(fs) |-> [fs[i] EXCEPT !.match_group = 0]]

SeqsUpTo(S, n) == UNION {[1..k -> S] : k \in 0..n}

(***************************************************************************)
(* SpecPair: _find_match and _merge_features applied to two events.        *)
(***************************************************************************)
PairTimes == {-300001, -300000, 0, 300000, 300001, None}
PairMags  == {369, 370, 371, 400, 429, 430, 431, None}
PairLats  == {-21, -20, 0, 20, 21, None}
PairLons  == {0, 20, 21, None}

PairAEvents ==
    {Feature("a", 0, m, 0, 0, "") : m \in {400, None}}

PairBEvents ==
    {Feature(id, t, m, la, lo, src) :
        id \in {"a", "b", ""}, t \in PairTimes, m \in PairMags,
        la \in PairLats, lo \in PairLons, src \in {"Kandilli"}}

FuseIdle ==
    /\ fBase = <<>> /\ fKand = <<>> /\ fEmsc = <<>> /\ fOut = <<>> /\ fpc = "off"

PairIdle ==
    /\ evA = Feature("", None, None, None, None, "")
    /\ evB = Feature("", None, None, None, None, "")
    /\ pairMatch = -1 /\ pairAB = <<>> /\ pairBA = <<>>

PairInit ==
    /\ evA \in PairAEvents
    /\ evB \in PairBEvents
    /\ pairMatch = -1 /\ pairAB = <<>> /\ pairBA = <<>>

PairFindMatch ==
    /\ pairMatch = -1
    /\ pairMatch' = FindMatch(evB, <<evA>>)
    /\ UNCHANGED <<evA, evB, pairAB, pairBA, scanVars, fuseVars, keyVars, sysVars, httpVars, adapterVars, webVars>>

PairMergeAB ==
    /\ pairAB = <<>>
    /\ pairAB' = MergeFeatures(<<evA>>, <<evB>>)
    /\ UNCHANGED <<evA, evB, pairMatch, pairBA, scanVars, fuseVars, keyVars, sysVars, httpVars, adapterVars, webVars>>

PairMergeBA ==
    /\ pairBA = <<>>
    /\ pairBA' = MergeFeatures(<<evB>>, <<evA>>)
    /\ UNCHANGED <<evA, evB, pairMatch, pairAB, scanVars, fuseVars, keyVars, sysVars, httpVars, adapterVars, webVars>>

(***************************************************************************)
(* SpecScan: _find_match and _merge_features applied to one incoming event *)
(* and a merged list of two events, which may share an id with each other  *)
(* or with the incoming event.                                             *)
(***************************************************************************)
ScanExisting ==
    { Feature("x", -90000, 400, 0, 0, "USGS"),
      Feature("y", 0, 400, 0, 0, "USGS"),
      Feature("n", 0, None, 0, 0, "USGS"),
      Feature("k", 600000, 410, 5, 5, "Kandilli"),
      Feature("k", 0, 410, 5, 5, "Kandilli") }

ScanCandidates ==
    { Feature("k", 0, 410, 5, 5, "Kandilli"),
      Feature("k", None, None, None, None, "Kandilli"),
      Feature("c", 0, 400, 0, 0, "EMSC"),
      Feature("", 0, 400, 0, 0, "EMSC"),
      Feature("c", 900000, 400, 0, 0, "EMSC"),
      Feature("c", 0, None, 0, 0, "EMSC") }

ScanInit ==
    scan \in [pc : {"on"}, existing : [1..2 -> ScanExisting],
              candidate : ScanCandidates, found : {-1}, merged : {<<>>}]

ScanFindMatch ==
    /\ scan.pc = "on"
    /\ scan.found = -1
    /\ scan' = [scan EXCEPT !.found = FindMatch(scan.candidate, scan.existing)]
    /\ UNCHANGED <<pairVars, fuseVars, keyVars, sysVars, httpVars, adapterVars, webVars>>

ScanMerge ==
    /\ scan.pc = "on"
    /\ scan.merged = <<>>
    /\ scan' = [scan EXCEPT !.merged = MergeFeatures(scan.existing, <<scan.candidate>>)]
    /\ UNCHANGED <<pairVars, fuseVars, keyVars, sysVars, httpVars, adapterVars, webVars>>

(***************************************************************************)
(* SpecFuse: the two fusion passes of get_earthquakes on bounded lists.    *)
(***************************************************************************)
MaxList == 2

UsgsEvents ==
    { Feature("us1", 0, 400, 0, 0, ""),
      Feature("us2", 400000, 400, 0, 0, ""),
      Feature("us3", 0, None, 0, 0, "") }

KandilliEvents ==
    { Feature("k1", 0, 410, 5, 5, "Kandilli"),
      Feature("k2", 200000, 410, 5, 5, "Kandilli"),
      Feature("k3", 900000, 410, 5, 5, "Kandilli") }

EmscEvents ==
    { Feature("e1", 400000, 390, 0, 0, "EMSC"),
      Feature("e2", 900000, 390, 0, 0, "EMSC"),
      Feature("e3", 2000000, 390, 0, 0, "EMSC") }

FuseInit ==
    /\ fBase \in SeqsUpTo(UsgsEvents, MaxList)
    /\ fKand \in SeqsUpTo(KandilliEvents, MaxList)
    /\ fEmsc \in SeqsUpTo(EmscEvents, MaxList)
    /\ fOut = <<>>
    /\ fpc = "ready"

FuseApply ==
    /\ fpc = "ready"
    /\ fOut' = FuseFeatures(fBase, fKand, fEmsc)
    /\ fpc' = "fused"
    /\ UNCHANGED <<fBase, fKand, fEmsc, matchVars, keyVars, sysVars, httpVars, adapterVars, webVars>>

(***************************************************************************)
(* _build_cache_key: json.dumps(params, sort_keys=True, default=str), then *)
(* md5.  A parameter map is the insertion-ordered sequence of its          *)
(* (name, value) entries; a value is a str, an int, or a float held in     *)
(* hundredths.                                                             *)
(***************************************************************************)
StrVal(s)   == [kind |-> "str", str |-> s, num |-> 0]
IntVal(n)   == [kind |-> "int", str |-> "", num |-> n]
FloatVal(n) == [kind |-> "float", str |-> "", num |-> n]

\* the parameter names of lines 90-100, in the order sort_keys puts them
SortedNames ==
    <<"endtime", "format", "limit", "maxmagnitude", "minmagnitude", "orderby",
      "starttime">>

NameRank(name) == CHOOSE i \in 1..Len(SortedNames) : SortedNames[i] = name

\* repr of a non-negative float with at most two decimals: 2.5, 4.0, 2.55
FloatRepr(n) ==
    ToString(n \div 100) \o "." \o
        (IF n % 100 = 0 THEN "0"
         ELSE IF n % 10 = 0 THEN ToString((n % 100) \div 10)
         ELSE IF n % 100 < 10 THEN "0" \o ToString(n % 100)
         ELSE ToString(n % 100))

JsonValue(v) ==
    IF v.kind = "str" THEN "\"" \o v.str \o "\""
    ELSE IF v.kind = "int" THEN ToString(v.num)
    ELSE FloatRepr(v.num)

RECURSIVE InsertSorted(_, _)
InsertSorted(entry, sorted) ==
    IF sorted = <<>> THEN <<entry>>
    ELSE IF NameRank(entry.name) < NameRank(Head(sorted).name)
         THEN <<entry>> \o sorted
         ELSE <<Head(sorted)>> \o InsertSorted(entry, Tail(sorted))

RECURSIVE SortKeys(_)
SortKeys(params) ==
    IF params = <<>> THEN <<>>
    ELSE InsertSorted(Head(params), SortKeys(Tail(params)))

RECURSIVE JsonItems(_)
JsonItems(entries) ==
    IF entries = <<>> THEN ""
    ELSE "\"" \o Head(entries).name \o "\": " \o JsonValue(Head(entries).value)
         \o (IF Len(entries) > 1 THEN ", " ELSE "") \o JsonItems(Tail(entries))

JsonDumpsUnsorted(params) == "{" \o JsonItems(params) \o "}"

JsonDumps(params) == "{" \o JsonItems(SortKeys(params)) \o "}"

\* hashlib.md5(...).hexdigest(): an opaque digest of its input (collisions
\* of md5 are not modelled)
Md5(text) == [md5_of |-> text]

BuildCacheKey(params) == Md5(JsonDumps(params))

(***************************************************************************)
(* SpecKey: _build_cache_key applied to two parameter maps.                *)
(***************************************************************************)
KeyValues ==
    [starttime    |-> {StrVal("2024-01-01T00:00:00"), StrVal("2024-01-02T00:00:00")},
     minmagnitude |-> {FloatVal(250), FloatVal(400)},
     limit        |-> {IntVal(1000)},
     maxmagnitude |-> {FloatVal(600), FloatVal(705)}]

KeyNameSets == {{"starttime", "minmagnitude", "limit"},
                {"starttime", "minmagnitude", "limit", "maxmagnitude"}}

\* every insertion order of every map over one of the name sets
KeyMaps ==
    UNION { { m \in [1..Cardinality(N) -> [name : N, value : UNION {KeyValues[n] : n \in N}]] :
                /\ \A i, j \in 1..Cardinality(N) : i # j => m[i].name # m[j].name
                /\ \A i \in 1..Cardinality(N) : m[i].value \in KeyValues[m[i].name] }
            : N \in KeyNameSets }

EntrySet(params) == {params[i] : i \in 1..Len(params)}

NoKey == Md5("")

KeyIdle == kpA = <<>> /\ kpB = <<>> /\ keyA = NoKey /\ keyB = NoKey

KeyInit ==
    /\ kpA \in KeyMaps
    /\ kpB \in KeyMaps
    /\ keyA = NoKey /\ keyB = NoKey

KeyBuildA ==
    /\ keyA = NoKey
    /\ keyA' = BuildCacheKey(kpA)
    /\ UNCHANGED <<kpA, kpB, keyB, matchVars, fuseVars, sysVars, httpVars, adapterVars, webVars>>

KeyBuildB ==
    /\ keyB = NoKey
    /\ keyB' = BuildCacheKey(kpB)
    /\ UNCHANGED <<kpA, kpB, keyA, matchVars, fuseVars, sysVars, httpVars, adapterVars, webVars>>


(***************************************************************************)
(* Spec: concurrent get_earthquakes calls on one EarthquakeCache.          *)
(* Time is in whole seconds.  A dict built by one USGS response is one     *)
(* heap object; the cache and the calls hold references to it, so that an  *)
(* in-place update is seen through every reference.                        *)
(***************************************************************************)
NumProcs == 2      \* coroutines that may run get_earthquakes at once
MaxCalls == 3      \* calls of get_earthquakes in one behaviour
MaxSeqCalls == 2   \* calls in one behaviour of the one-caller specification
MaxTime  == 4      \* last clock value
Ttl      == 4      \* EarthquakeCache(ttl=...), seconds
MaxSize  == 1      \* EarthquakeCache(max_size=...)

SOURCE_TIMEOUT_SECONDS == 3

Procs == 1..NumProcs
Secondaries == {"Kandilli", "EMSC"}

\* ---- the TTLCache behind self._cache: entries in least-recently-used order
CacheExpire(c, time) == SelectSeq(c, LAMBDA e : time < e.expires)

CacheContainsOffByOne(c, key, time) ==
    \E i \in 1..Len(c) : c[i].key = key /\ time + 1 < c[i].expires

\* a lookup that does not look at the expiry time
CacheContainsStored(c, key, time) ==
    \E i \in 1..Len(c) : c[i].key = key

CacheContains(c, key, time) ==
    \E i \in 1..Len(c) : c[i].key = key /\ time < c[i].expires

CacheStored(c, key) == \E i \in 1..Len(c) : c[i].key = key

CacheEntry(c, key) == c[CHOOSE i \in 1..Len(c) : c[i].key = key]

CacheRemove(c, key) == SelectSeq(c, LAMBDA e : e.key # key)

\* __getitem__ of an unexpired key: the entry becomes the most recently used
CacheTouch(c, key) == Append(CacheRemove(c, key), CacheEntry(c, key))

\* a store that grows instead of evicting
CacheSetItemGrows(c, key, obj, time) ==
    Append(CacheRemove(CacheExpire(c, time), key),
           [key |-> key, obj |-> obj, expires |-> time + Ttl])

\* __setitem__: expire, evict least recently used entries while full, insert
CacheSetItem(c, key, obj, time) ==
    LET live == CacheExpire(c, time)
        kept == IF CacheStored(live, key) THEN CacheRemove(live, key)
                ELSE IF Len(live) >= MaxSize
                     THEN SubSeq(live, Len(live) - MaxSize + 2, Len(live))
                     ELSE live
    IN  Append(kept, [key |-> key, obj |-> obj, expires |-> time + Ttl])

\* ---- requests.  A datetime is its isoformat() text and its instant in
\* milliseconds after 2024-01-15T00:00:00Z (event times use the same origin)
DateTime(iso, ms) == [iso |-> iso, ms |-> ms]

Query(limit) ==
    [start_time |-> DateTime("2024-01-15T00:00:00", 0),
     end_time |-> DateTime("2024-01-16T00:00:00", 86400000),
     min_magnitude |-> 250, max_magnitude |-> None, limit |-> limit]

Queries == {Query(1000), Query(6000)}

ClampLimit(limit) ==
    LET lo == IF limit > 1 THEN limit ELSE 1
    IN  IF lo < 5000 THEN lo ELSE 5000

\* a parameter map without the end of the window
QueryParamsNoEndTime(q) ==
    << [name |-> "format", value |-> StrVal("geojson")],
       [name |-> "starttime", value |-> StrVal(q.start_time.iso)],
       [name |-> "minmagnitude", value |-> FloatVal(q.min_magnitude)],
       [name |-> "limit", value |-> IntVal(ClampLimit(q.limit))],
       [name |-> "orderby", value |-> StrVal("time")] >>

QueryParams(q) ==
    << [name |-> "format", value |-> StrVal("geojson")],
       [name |-> "starttime", value |-> StrVal(q.start_time.iso)],
       [name |-> "endtime", value |-> StrVal(q.end_time.iso)],
       [name |-> "minmagnitude", value |-> FloatVal(q.min_magnitude)],
       [name |-> "limit", value |-> IntVal(ClampLimit(q.limit))],
       [name |-> "orderby", value |-> StrVal("time")] >>
    \o (IF q.max_magnitude # None
        THEN << [name |-> "maxmagnitude", value |-> FloatVal(q.max_magnitude)] >>
        ELSE << >>)

\* ---- provider answers
SysU == Feature("us1", 0, 400, 0, 0, "")
SysK == Feature("k1", 60000, 410, 5, 5, "Kandilli")
SysE == Feature("e1", 120000, 390, 0, 0, "EMSC")

UsgsBodies ==
    { [features |-> <<SysU>>, metadata |-> TRUE],
      [features |-> << >>, metadata |-> FALSE] }

\* what each secondary adapter can do with its request
SecondaryOutcomes ==
    [Kandilli |-> {"listing", "garbage", "http"},
     EMSC     |-> {"collection", "notjson", "transport"}]

\* outcomes in which the adapter coroutine raises
Raises(origin) == origin \in {"notjson", "transport", "http", "timeout"}

AdapterFeatures(origin) ==
    IF origin = "listing" THEN <<SysK>>
    ELSE IF origin = "collection" THEN <<SysE>>
    ELSE << >>

ErrorText(origin) ==
    IF origin = "timeout" THEN "Timeout after 3s"
    ELSE IF origin = "transport" THEN "ConnectError"
    ELSE IF origin = "http" THEN "HTTPStatusError"
    ELSE IF origin = "notjson" THEN "JSONDecodeError"
    ELSE ""

\* nth: the place of the task among the two in order of completion; 0 before
\* task: what has become of the adapter coroutine wrapped by wait_for
NoResult ==
    [state |-> "none", origin |-> "", features |-> << >>, error |-> "", nth |-> 0,
     task |-> "none"]
PendingResult == [NoResult EXCEPT !.state = "pending", !.task = "running"]

\* a timeout that only stops waiting would leave the adapter running
WaitForAbandons(origin) == IF origin = "timeout" THEN "running" ELSE "finished"

\* lines 535-539: asyncio.wait_for cancels the adapter coroutine when the
\* timeout elapses (CancelledError is not an Exception, so the except clause
\* of _fetch_kandilli_text does not swallow it) and only then raises
\* TimeoutError; an adapter that returned or raised by itself has finished
WaitFor(origin) == IF origin = "timeout" THEN "cancelled" ELSE "finished"

\* the value a secondary task hands to asyncio.gather
TaskResult(origin) ==
    IF Raises(origin)
    THEN [state |-> "exception", origin |-> origin, features |-> << >>,
          error |-> ErrorText(origin), nth |-> 0, task |-> WaitFor(origin)]
    ELSE [state |-> "value", origin |-> origin,
          features |-> AdapterFeatures(origin), error |-> "", nth |-> 0,
          task |-> WaitFor(origin)]

\* ---- payloads
Status(ok, error) == [ok |-> ok, error |-> error]
NoSources == [s \in {"USGS", "Kandilli", "EMSC"} |-> Status(FALSE, "absent")]

Payload(features, hasMetadata) ==
    [features |-> features,
     metadata |-> [present |-> hasMetadata, count |-> Len(features),
                   has_sources |-> FALSE, sources |-> NoSources]]

NoPayload == [features |-> << >>,
              metadata |-> [present |-> FALSE, count |-> -1,
                            has_sources |-> FALSE, sources |-> NoSources]]

SourceStatusAlwaysOk(result) == Status(TRUE, "")

\* lines 136-148: the status recorded for one secondary result
SourceStatus(result) ==
    IF result.state = "exception" THEN Status(FALSE, result.error)
    ELSE Status(TRUE, "")

\* lines 136-148: kandilli_features / emsc_features
ResultFeatures(result) ==
    IF result.state = "exception" THEN << >> ELSE result.features

GatherRaisesFirst(kandilli_result, emsc_result) ==
    kandilli_result.state = "exception" \/ emsc_result.state = "exception"

\* asyncio.gather(..., return_exceptions=True) raises nothing into the caller
GatherRaises(kandilli_result, emsc_result) == FALSE

\* lines 109, 136-148: the dict source_status
SourceStatuses(kandilli_result, emsc_result) ==
    [s \in {"USGS", "Kandilli", "EMSC"} |->
        IF s = "USGS" THEN Status(TRUE, "")
        ELSE IF s = "Kandilli" THEN SourceStatus(kandilli_result)
        ELSE SourceStatus(emsc_result)]

FusedPayloadInCompletionOrder(data, kandilli_result, emsc_result) ==
    LET first == IF kandilli_result.nth < emsc_result.nth
                 THEN kandilli_result ELSE emsc_result
        second == IF kandilli_result.nth < emsc_result.nth
                  THEN emsc_result ELSE kandilli_result
        merged == FuseFeatures(data.features, ResultFeatures(first),
                               ResultFeatures(second))
    IN  [features |-> merged,
         metadata |->
            IF data.metadata.present
            THEN [present |-> TRUE, count |-> Len(merged), has_sources |-> TRUE,
                  sources |-> SourceStatuses(kandilli_result, emsc_result)]
            ELSE data.metadata]

\* lines 150-161 applied to the dict `data`
FusedPayload(data, kandilli_result, emsc_result) ==
    LET merged == FuseFeatures(data.features, ResultFeatures(kandilli_result),
                               ResultFeatures(emsc_result))
    IN  [features |-> merged,
         metadata |->
            IF data.metadata.present
            THEN [present |-> TRUE, count |-> Len(merged), has_sources |-> TRUE,
                  sources |-> SourceStatuses(kandilli_result, emsc_result)]
            ELSE data.metadata]


\* ---- state of one get_earthquakes call
IdleProc ==
    [pc |-> "idle",            \* idle | usgs | gather | done | failed
     id |-> 0,                 \* number of the call; names the dict it builds
     query |-> Query(0),
     key |-> NoKey,
     data |-> 0,               \* heap object bound to `data`; 0: none
     primary |-> "",           \* how the USGS request ended: "" | ok | timeout | http | other
     entry |-> "",             \* at a failed USGS request, the cache entry of the key:
                               \*   none | live | expired
     entryObj |-> 0,           \* and the object it held
     started |-> 0,            \* clock when the secondary tasks were created
     kandilli_result |-> NoResult,
     emsc_result |-> NoResult,
     source_status |-> NoSources,
     base |-> << >>,           \* data["features"] when fusion began
     ret |-> 0,                \* object returned to the caller
     response |-> NoPayload,   \* its content when it was returned
     error |-> "",             \* message of the RuntimeError raised to the caller
     hit |-> FALSE,            \* returned by the cache lookup of lines 104-105
     requested |-> {},         \* providers this call sent a request to
     servedAtCall |-> NoPayload, \* served[key] when the call was made
     inWindow |-> FALSE,       \* the call was made within Ttl of served[key].at
     storedAtCall |-> FALSE,   \* the cache stored an entry of the key at the call
     stored |-> NoPayload]     \* content of the entry the timeout fallback took

NoServed == [payload |-> NoPayload, at |-> -1]

SysIdle ==
    /\ now = 0 /\ cache = << >> /\ calls = 0
    /\ heap = [o \in 1..MaxCalls |-> NoPayload]
    /\ proc = [p \in Procs |-> IdleProc]
    /\ served = << >>

SysInit ==
    /\ now = 0
    /\ cache = << >>
    /\ calls = 0
    /\ heap = [o \in 1..MaxCalls |-> NoPayload]
    /\ proc = [p \in Procs |-> IdleProc]
    /\ served = [k \in {BuildCacheKey(QueryParams(q)) : q \in Queries} |-> NoServed]

TimeoutFallbackNever(c, key, time) == FALSE

\* a fallback test that accepts an entry past its time-to-live
TimeoutFallbackStored(c, key, time) == CacheStored(c, key)

\* lines 180-182: the fallback test made when the USGS request timed out
TimeoutFallback(c, key, time) == CacheContains(c, key, time)

EntryState(c, key, time) ==
    IF ~CacheStored(c, key) THEN "none"
    ELSE IF time < CacheEntry(c, key).expires THEN "live"
    ELSE "expired"

\* a coroutine that is not inside get_earthquakes; a new call runs in the
\* first free one
Free(pr) == pr.pc \in {"idle", "done", "failed"}

\* lines 81-108: defaults, clamp, key, cache lookup; on a miss the USGS request
\* is sent
Call(p, q) ==
    LET key == BuildCacheKey(QueryParams(q))
        new == [IdleProc EXCEPT !.id = calls + 1, !.query = q, !.key = key,
                   !.servedAtCall = served[key].payload,
                   !.inWindow = (served[key].at >= 0 /\ now < served[key].at + Ttl),
                   !.storedAtCall = CacheStored(cache, key)]
    IN  /\ Free(proc[p])
        /\ \A r \in Procs : r < p => ~Free(proc[r])
        /\ calls < MaxCalls
        /\ calls' = calls + 1
        /\ IF CacheContains(cache, key, now)
           THEN /\ proc' = [proc EXCEPT ![p] =
                      [new EXCEPT !.pc = "done", !.hit = TRUE,
                                  !.ret = CacheEntry(cache, key).obj,
                                  !.response = heap[CacheEntry(cache, key).obj]]]
                /\ cache' = CacheTouch(cache, key)
           ELSE /\ proc' = [proc EXCEPT ![p] =
                      [new EXCEPT !.pc = "usgs", !.requested = {"USGS"}]]
                /\ cache' = cache
        /\ UNCHANGED <<now, heap, served, matchVars, fuseVars, keyVars, httpVars, adapterVars, webVars>>

\* lines 109-130: source_status, the two secondary tasks are created and awaited
StartSecondaries(pr, obj, how) ==
    [pr EXCEPT !.pc = "gather", !.data = obj, !.primary = how, !.started = now,
               !.kandilli_result = PendingResult, !.emsc_result = PendingResult,
               !.requested = @ \cup Secondaries]

\* lines 175-177: the USGS response arrives and parses
UsgsResponse(p, body) ==
    /\ proc[p].pc = "usgs"
    /\ heap' = [heap EXCEPT ![proc[p].id] = Payload(body.features, body.metadata)]
    /\ proc' = [proc EXCEPT ![p] = StartSecondaries(proc[p], proc[p].id, "ok")]
    /\ UNCHANGED <<now, cache, calls, served, matchVars, fuseVars, keyVars, httpVars, adapterVars, webVars>>

\* lines 178-183: httpx.TimeoutException
UsgsTimeout(p) ==
    LET pr == [proc[p] EXCEPT !.entry = EntryState(cache, proc[p].key, now),
                  !.entryObj = IF CacheStored(cache, proc[p].key)
                               THEN CacheEntry(cache, proc[p].key).obj ELSE 0,
                  !.stored = IF TimeoutFallback(cache, proc[p].key, now)
                             THEN heap[CacheEntry(cache, proc[p].key).obj]
                             ELSE NoPayload]
    IN  /\ proc[p].pc = "usgs"
        /\ IF TimeoutFallback(cache, proc[p].key, now)
           THEN /\ proc' = [proc EXCEPT ![p] =
                      StartSecondaries(pr, CacheEntry(cache, proc[p].key).obj, "timeout")]
                /\ cache' = CacheTouch(cache, proc[p].key)
           ELSE /\ proc' = [proc EXCEPT ![p] =
                      [pr EXCEPT !.pc = "failed", !.primary = "timeout",
                                 !.error = "USGS API timeout"]]
                /\ cache' = cache
        /\ UNCHANGED <<now, heap, calls, served, matchVars, fuseVars, keyVars, httpVars, adapterVars, webVars>>

UsgsErrorSwallowed(p, how) ==
    /\ proc[p].pc = "usgs"
    /\ heap' = [heap EXCEPT ![proc[p].id] = Payload(<< >>, FALSE)]
    /\ proc' = [proc EXCEPT ![p] =
          StartSecondaries([@ EXCEPT !.entry = EntryState(cache, proc[p].key, now)],
                           proc[p].id, how)]
    /\ UNCHANGED <<now, cache, calls, served, matchVars, fuseVars, keyVars, httpVars, adapterVars, webVars>>

\* lines 184-187: HTTPStatusError, or any other exception of the request
UsgsError(p, how) ==
    /\ proc[p].pc = "usgs"
    /\ proc' = [proc EXCEPT ![p] =
          [@ EXCEPT !.pc = "failed", !.primary = how,
                    !.entry = EntryState(cache, proc[p].key, now),
                    !.entryObj = IF CacheStored(cache, proc[p].key)
                                 THEN CacheEntry(cache, proc[p].key).obj ELSE 0,
                    !.error = IF how = "http" THEN "USGS API error"
                              ELSE "Failed to fetch earthquake data"]]
    /\ UNCHANGED <<now, cache, heap, calls, served, matchVars, fuseVars, keyVars, httpVars, adapterVars, webVars>>

ResultOf(pr, src) == IF src = "Kandilli" THEN pr.kandilli_result ELSE pr.emsc_result

SetResult(pr, src, res) ==
    LET finished == Cardinality({s \in Secondaries :
                                   ResultOf(pr, s).state \in {"value", "exception"}})
        r == [res EXCEPT !.nth = finished + 1]
    IN  IF src = "Kandilli" THEN [pr EXCEPT !.kandilli_result = r]
        ELSE [pr EXCEPT !.emsc_result = r]

DeadlineReached(pr) == now - pr.started >= SOURCE_TIMEOUT_SECONDS

\* a secondary adapter finishes (returns or raises) before its deadline
SecondaryDone(p, src, origin) ==
    /\ proc[p].pc = "gather"
    /\ ResultOf(proc[p], src).task = "running"
    /\ ~DeadlineReached(proc[p])
    /\ proc' = [proc EXCEPT ![p] = SetResult(@, src, TaskResult(origin))]
    /\ UNCHANGED <<now, cache, heap, calls, served, matchVars, fuseVars, keyVars, httpVars, adapterVars, webVars>>

\* lines 535-539: wait_for cancels the adapter and RuntimeError is raised
SecondaryTimeout(p, src) ==
    /\ proc[p].pc = "gather"
    /\ ResultOf(proc[p], src).state = "pending"
    /\ DeadlineReached(proc[p])
    /\ proc' = [proc EXCEPT ![p] = SetResult(@, src, TaskResult("timeout"))]
    /\ UNCHANGED <<now, cache, heap, calls, served, matchVars, fuseVars, keyVars, httpVars, adapterVars, webVars>>

GatherCompleteEither(pr) ==
    /\ pr.pc = "gather"
    /\ \/ pr.kandilli_result.state # "pending"
       \/ pr.emsc_result.state # "pending"

GatherComplete(pr) ==
    /\ pr.pc = "gather"
    /\ pr.kandilli_result.state # "pending"
    /\ pr.emsc_result.state # "pending"

\* lines 130-166: gather returns; status, fusion, metadata, cache store, return
Fuse(p) ==
    LET pr == proc[p]
        fused == FusedPayload(heap[pr.data], pr.kandilli_result, pr.emsc_result)
    IN  /\ GatherComplete(pr)
        /\ IF GatherRaises(pr.kandilli_result, pr.emsc_result)
           THEN /\ proc' = [proc EXCEPT ![p] =
                      [@ EXCEPT !.pc = "failed", !.error = "secondary"]]
                /\ UNCHANGED <<heap, cache, served, webVars>>
           ELSE /\ heap' = [heap EXCEPT ![pr.data] = fused]
                /\ cache' = CacheSetItem(cache, pr.key, pr.data, now)
                /\ proc' = [proc EXCEPT ![p] =
                      [@ EXCEPT !.pc = "done", !.base = heap[pr.data].features,
                                !.source_status =
                                    SourceStatuses(pr.kandilli_result, pr.emsc_result),
                                !.ret = pr.data, !.response = fused,
                                !.started = 0]]
                /\ served' = [k \in DOMAIN served |->
                      IF k = pr.key THEN [payload |-> fused, at |-> now]
                      ELSE served[k]]
        /\ UNCHANGED <<now, calls, matchVars, fuseVars, keyVars, httpVars, adapterVars, webVars>>

\* the event loop runs every ready callback and every due timer before it
\* sleeps: the clock advances only when no call has a step to take
Urgent(pr) ==
    \/ GatherComplete(pr)
    \/ /\ pr.pc = "gather"
       /\ DeadlineReached(pr)

Tick ==
    /\ now < MaxTime
    /\ \A p \in Procs : ~Urgent(proc[p])
    /\ now' = now + 1
    /\ UNCHANGED <<cache, heap, calls, proc, served, matchVars, fuseVars, keyVars, httpVars, adapterVars, webVars>>


(***************************************************************************)
(* SpecHttp: the earthquake router.  One request reaches one endpoint; the  *)
(* handler awaits earthquake_cache.get_earthquakes, which returns a payload *)
(* or raises; the handler returns, raises HTTPException, or lets the        *)
(* exception through to the application, which answers it.                  *)
(***************************************************************************)
Presets == {"today", "week", "month"}
Endpoints == {"earthquakes"} \cup Presets

\* min_magnitude of the query string, in hundredths; None: not given
HttpMagnitudes == {None, 0, 300, 1000}

\* what the awaited core call does
CoreOutcomes ==
    {[kind |-> "return", cls |-> "", text |-> ""]}
    \cup {[kind |-> "raise", cls |-> "RuntimeError", text |-> t] :
             t \in {"USGS API timeout", "USGS API error",
                    "Failed to fetch earthquake data"}}
    \cup {[kind |-> "raise", cls |-> c, text |-> "bad payload"] :
             c \in {"TypeError", "AttributeError", "KeyError"}}

\* the arguments an endpoint passes to the core: window length in hours
\* (None: start_time and end_time of the query string) and min_magnitude
EndpointArgs(endpoint, min_magnitude) ==
    [hours |-> IF endpoint = "today" THEN 24
               ELSE IF endpoint = "week" THEN 7 * 24
               ELSE IF endpoint = "month" THEN 30 * 24
               ELSE None,
     min_magnitude |->
        IF min_magnitude # None THEN min_magnitude
        ELSE IF endpoint = "week" THEN 400
        ELSE IF endpoint = "month" THEN 500
        ELSE 250]

Returned == [kind |-> "return", cls |-> "", status |-> 200, detail |-> << >>]
HTTPException(status_code, detail) ==
    [kind |-> "raise", cls |-> "HTTPException", status |-> status_code,
     detail |-> detail]
Propagated(out) ==
    [kind |-> "raise", cls |-> out.cls, status |-> 0, detail |-> <<out.text>>]

RouterGetEarthquakesAll503(out) ==
    IF out.kind = "return" THEN Returned
    ELSE HTTPException(503, <<out.text>>)

\* backend/routers/earthquake.py lines 55-67
RouterGetEarthquakes(out) ==
    IF out.kind = "return" THEN Returned
    ELSE IF out.cls = "RuntimeError" THEN HTTPException(503, <<out.text>>)
    ELSE HTTPException(500, <<"Internal error: ", out.text>>)

\* lines 78-85, 96-103, 114-121: only RuntimeError is caught
RouterPreset(out) ==
    IF out.kind = "return" THEN Returned
    ELSE IF out.cls = "RuntimeError" THEN HTTPException(503, <<out.text>>)
    ELSE Propagated(out)

\* the application's answer to what the handler did: the payload with 200,
\* an HTTPException with its status and detail, and for any other exception
\* the server-error response of the framework
Respond(result) ==
    IF result.kind = "return" THEN [status |-> 200, detail |-> << >>]
    ELSE IF result.cls = "HTTPException"
         THEN [status |-> result.status, detail |-> result.detail]
    ELSE [status |-> 500, detail |-> <<"Internal Server Error">>]

NoHttpResult == [kind |-> "", cls |-> "", status |-> 0, detail |-> << >>]

HttpInit ==
    \E e \in Endpoints, m \in HttpMagnitudes :
        http = [pc |-> "request", endpoint |-> e, min_magnitude |-> m,
                args |-> EndpointArgs(e, None), core |-> CoreOutcomes,
                result |-> NoHttpResult, status |-> 0, detail |-> << >>]

HttpGetEarthquakes ==
    /\ http.pc = "request" /\ http.endpoint = "earthquakes"
    /\ \E out \in CoreOutcomes :
          http' = [http EXCEPT !.pc = "handled", !.core = {out},
                     !.args = EndpointArgs(http.endpoint, http.min_magnitude),
                     !.result = RouterGetEarthquakes(out)]
    /\ UNCHANGED <<matchVars, fuseVars, keyVars, sysVars, adapterVars, webVars>>

HttpPreset(e) ==
    /\ http.pc = "request" /\ http.endpoint = e
    /\ \E out \in CoreOutcomes :
          http' = [http EXCEPT !.pc = "handled", !.core = {out},
                     !.args = EndpointArgs(http.endpoint, http.min_magnitude),
                     !.result = RouterPreset(out)]
    /\ UNCHANGED <<matchVars, fuseVars, keyVars, sysVars, adapterVars, webVars>>

HttpRespond ==
    /\ http.pc = "handled"
    /\ http' = [http EXCEPT !.pc = "responded",
                  !.status = Respond(http.result).status,
                  !.detail = Respond(http.result).detail]
    /\ UNCHANGED <<matchVars, fuseVars, keyVars, sysVars, adapterVars, webVars>>

(***************************************************************************)
(* SpecKandilli: _parse_kandilli_text and the filter of                     *)
(* _get_kandilli_features.  A text is a sequence of lines, a line the       *)
(* sequence of its whitespace-separated tokens (line.strip().split()).      *)
(* Tokens are strings of a fixed vocabulary; what the regular expression,   *)
(* float() and strptime make of each is tabulated below.                    *)
(***************************************************************************)
DateTokens == {"2024.01.15", "2024.01.16", "2024.13.45", "15.01.2024"}
TimeTokens == {"02:59:59", "03:00:00", "08:30:00", "25:61:61", "08:30:00x"}

\* line 338: ^\d{4}\.\d{2}\.\d{2}\s+\d{2}:\d{2}:\d{2} on the stripped line: the
\* first token is all of a date shape, the second begins with a time shape
DateShaped(tok) == tok \in {"2024.01.15", "2024.01.16", "2024.13.45"}
TimeShapedPrefix(tok) == tok \in TimeTokens
MatchesStamp(parts) ==
    /\ Len(parts) >= 2
    /\ DateShaped(parts[1])
    /\ TimeShapedPrefix(parts[2])

\* float(value.replace(",", ".")) in hundredths; a token outside the table
\* makes float() raise ValueError
FloatOf ==
    ("39.10" :> 3910) @@ ("27,50" :> 2750) @@ ("5.0" :> 500) @@ ("2.0" :> 200)
    @@ ("2.4" :> 240) @@ ("2.5" :> 250) @@ ("3.2" :> 320) @@ ("4.0" :> 400)
    @@ ("4.1" :> 410)

\* lines 498-507
ToFloat(value) ==
    IF value \in {"-.-", "--", "---"} THEN None
    ELSE IF value \in DOMAIN FloatOf THEN FloatOf[value]
    ELSE None

\* datetime.strptime(..., "%Y.%m.%d %H:%M:%S"): milliseconds of the wall-clock
\* reading counted from 2024-01-15 00:00:00; None where it raises ValueError
DayMs == ("2024.01.15" :> 0) @@ ("2024.01.16" :> 24 * 3600 * 1000)
TimeOfDayMs ==
    ("02:59:59" :> (2 * 3600 + 59 * 60 + 59) * 1000)
    @@ ("03:00:00" :> 3 * 3600 * 1000)
    @@ ("08:30:00" :> (8 * 3600 + 30 * 60) * 1000)
Strptime(date_str, time_str) ==
    IF date_str \in DOMAIN DayMs /\ time_str \in DOMAIN TimeOfDayMs
    THEN DayMs[date_str] + TimeOfDayMs[time_str]
    ELSE None

\* timezone(timedelta(hours=3)), in ms
KANDILLI_UTC_OFFSET_MS == 3 * 3600 * 1000

LocalAsUtc(wall_ms) == wall_ms

\* lines 381-388: the wall-clock reading taken at UTC+3, as ms from
\* 2024-01-15T00:00:00Z
LocalToUtcMs(wall_ms) == wall_ms - KANDILLI_UTC_OFFSET_MS

SubSeqFrom(parts, first) ==
    IF first > Len(parts) THEN << >> ELSE SubSeq(parts, first, Len(parts))

\* lines 357-362 / 366-370: index of the first token float() accepts, or 0
FirstParseable(values) ==
    LET ok == {i \in 1..Len(values) : ToFloat(values[i]) # None}
    IN  IF ok = {} THEN 0 ELSE SetMin(ok)

MagTypes == <<"md", "ml", "mw">>

KandilliFeature(date_str, time_str, lat, lon, depth, mag, mag_type, place, time_ms) ==
    [id |-> <<"kandilli", date_str, time_str, lat, lon>>,
     time |-> time_ms, mag |-> mag, lat |-> lat, lon |-> lon, depth |-> depth,
     place |-> place, magType |-> mag_type, source |-> "Kandilli",
     match_group |-> 0]

\* lines 335-428: the body of the loop for one line; << >> where it `continue`s
ParseLine(parts) ==
    IF parts = << >> THEN << >>
    ELSE IF ~MatchesStamp(parts) THEN << >>
    ELSE IF Len(parts) < 6 THEN << >>
    ELSE
      LET lat == ToFloat(parts[3])
          lon == ToFloat(parts[4])
          depth == ToFloat(parts[5])
          mag_values == SubSeq(parts, 6, IF Len(parts) < 8 THEN Len(parts) ELSE 8)
          rest == SubSeqFrom(parts, 6)
          first == FirstParseable(mag_values)
          fallback == FirstParseable(rest)
          mag == IF first # 0 THEN ToFloat(mag_values[first])
                 ELSE IF fallback # 0 THEN ToFloat(rest[fallback])
                 ELSE None
          mag_type == IF first # 0 THEN MagTypes[first] ELSE ""
          start == IF 5 + Len(mag_values) > Len(parts) THEN 5
                   ELSE 5 + Len(mag_values)
          place == SubSeqFrom(parts, start + 1)
          wall == Strptime(parts[1], parts[2])
      IN  IF lat = None \/ lon = None \/ depth = None THEN << >>
          ELSE IF mag = None THEN << >>
          ELSE IF wall = None THEN << >>
          ELSE <<KandilliFeature(parts[1], parts[2], lat, lon, depth, mag,
                                 mag_type, place, LocalToUtcMs(wall))>>

RECURSIVE ParseLinesUntilSkip(_, _)
ParseLinesUntilSkip(lines, features) ==
    IF lines = << >> THEN features
    ELSE IF ParseLine(Head(lines)) = << >> THEN features
    ELSE ParseLinesUntilSkip(Tail(lines), features \o ParseLine(Head(lines)))

\* lines 333-428: the loop over the lines
RECURSIVE ParseLines(_, _)
ParseLines(lines, features) ==
    IF lines = << >> THEN features
    ELSE ParseLines(Tail(lines), features \o ParseLine(Head(lines)))

\* lines 328-430
ParseKandilliText(lines) == ParseLines(lines, << >>)

\* a datetime: wall-clock ms from 2024-01-15 00:00:00 and tzinfo (utcoffset in
\* ms; None for a naive datetime)
DateTimeTz(wall_ms, tz) == [wall |-> wall_ms, tz |-> tz]

\* lines 519-525
ToUtcMs(value) ==
    IF value.tz = None THEN value.wall ELSE value.wall - value.tz

KeepsUpToEndExclusive(feature, start_ms, end_ms, min_magnitude, max_magnitude) ==
    /\ feature.mag # None /\ feature.time # None
    /\ ~(feature.time < start_ms \/ feature.time >= end_ms)
    /\ ~(feature.mag < min_magnitude)
    /\ ~(max_magnitude # None /\ feature.mag > max_magnitude)

\* lines 207-219: the feature passes every `continue`
Keeps(feature, start_ms, end_ms, min_magnitude, max_magnitude) ==
    /\ feature.mag # None /\ feature.time # None
    /\ ~(feature.time < start_ms \/ feature.time > end_ms)
    /\ ~(feature.mag < min_magnitude)
    /\ ~(max_magnitude # None /\ feature.mag > max_magnitude)

RECURSIVE FilterLoop(_, _, _, _, _, _)
FilterLoop(features, filtered, start_ms, end_ms, min_magnitude, max_magnitude) ==
    IF features = << >> THEN filtered
    ELSE FilterLoop(Tail(features),
            IF Keeps(Head(features), start_ms, end_ms, min_magnitude, max_magnitude)
            THEN Append(filtered, Head(features)) ELSE filtered,
            start_ms, end_ms, min_magnitude, max_magnitude)

\* lines 198-221: the parsed features filtered by window and magnitude bounds
GetKandilliFeatures(features, q) ==
    IF features = << >> THEN << >>
    ELSE FilterLoop(features, << >>, ToUtcMs(q.start_time), ToUtcMs(q.end_time),
                    q.min_magnitude, q.max_magnitude)

\* ---- the texts and queries of SpecKandilli
KandCoords ==
    { <<"39.10", "27,50", "5.0">>, <<"abc", "27,50", "5.0">>,
      <<"39.10", "-.-", "5.0">>, <<"39.10", "27,50", "--">> }

KandMagCols ==
    { << >>, <<"2.5">>, <<"-.-", "3.2", "--">>, <<"4.1", "3.2", "-.-">>,
      <<"-.-", "--", "4.0">>, <<"2.4", "-.-", "-.-">>, <<"-.-", "--", "---">> }

KandPlaces == { << >>, <<"IZMIR">>, <<"GOKOVA", "2.0", "Ilksel">> }

HeaderLine == <<"Tarih", "Saat", "Enlem(N)", "Boylam(E)", "Derinlik(km)", "MD">>

GoodLine ==
    <<"2024.01.15", "08:30:00", "39.10", "27,50", "5.0", "-.-", "3.2", "-.-", "IZMIR">>

KandLines ==
    { <<d, t>> \o c \o m \o pl :
         d \in DateTokens, t \in TimeTokens, c \in KandCoords,
         m \in KandMagCols, pl \in KandPlaces }
    \cup { << >>, HeaderLine }

KandTexts ==
    { <<l>> : l \in KandLines }
    \cup { <<l, GoodLine>> : l \in KandLines }
    \cup { <<GoodLine, l>> : l \in KandLines }

DayLengthMs == 24 * 3600 * 1000

KandQuery(start_time, end_time, min_magnitude, max_magnitude) ==
    [start_time |-> start_time, end_time |-> end_time,
     min_magnitude |-> min_magnitude, max_magnitude |-> max_magnitude]

KandQueries ==
    { KandQuery(DateTimeTz(0, None), DateTimeTz(DayLengthMs, None), 250, None),
      KandQuery(DateTimeTz(0, None), DateTimeTz(DayLengthMs, None), 250, 400),
      KandQuery(DateTimeTz(KANDILLI_UTC_OFFSET_MS, KANDILLI_UTC_OFFSET_MS),
                DateTimeTz(DayLengthMs + KANDILLI_UTC_OFFSET_MS, KANDILLI_UTC_OFFSET_MS),
                320, None) }

KandInit ==
    \E text \in KandTexts, q \in KandQueries :
        kand = [pc |-> "text", lines |-> text, query |-> q,
                features |-> << >>, filtered |-> << >>]

\* line 198
KandParse ==
    /\ kand.pc = "text"
    /\ kand' = [kand EXCEPT !.pc = "parsed",
                  !.features = ParseKandilliText(kand.lines)]
    /\ UNCHANGED <<matchVars, fuseVars, keyVars, sysVars, httpVars, fetchVars, webVars>>

\* lines 199-221
KandFilter ==
    /\ kand.pc = "parsed"
    /\ kand' = [kand EXCEPT !.pc = "filtered",
                  !.filtered = GetKandilliFeatures(kand.features, kand.query)]
    /\ UNCHANGED <<matchVars, fuseVars, keyVars, sysVars, httpVars, fetchVars, webVars>>

(***************************************************************************)
(* SpecNow: get_earthquakes called, one call after the other, with an       *)
(* end_time read from the clock: without arguments (the /earthquakes        *)
(* endpoint without end_time) and from the preset endpoints.  The clock is  *)
(* `now`; utcnow() at clock second t is 2024-01-15T00:00:0t.                *)
(***************************************************************************)
\* "since": /earthquakes with an explicit start_time and no end_time
NowEndpoints == {"earthquakes", "since", "today", "week"}

DayText(day) ==
    IF day = 0 THEN "2024-01-15"
    ELSE IF day = -1 THEN "2024-01-14"
    ELSE "2024-01-08"

\* datetime.isoformat() of a datetime with microsecond 0
IsoFormat(day, second) ==
    DayText(day) \o "T00:00:" \o (IF second < 10 THEN "0" ELSE "") \o ToString(second)

\* datetime.utcnow() read at clock second t, and the datetime `days` before it
UtcNow(t) == DateTime(IsoFormat(0, t), t * 1000)
DaysBefore(t, days) == DateTime(IsoFormat(-days, t), t * 1000 - days * DayLengthMs)

\* cache lines 81-85 for a call without arguments; router lines 75-76, 93-94
\* for a preset, whose end_time and start_time get_earthquakes takes as given
NowQuery(endpoint, t) ==
    LET args == EndpointArgs(endpoint, None)
        days == IF args.hours = None THEN 1 ELSE args.hours \div 24
    IN  [start_time |-> IF endpoint = "since"
                        THEN DateTime("2024-01-14T00:00:00", -DayLengthMs)
                        ELSE DaysBefore(t, days),
         end_time |-> UtcNow(t),
         min_magnitude |-> args.min_magnitude, max_magnitude |-> None,
         limit |-> 1000]

NowInit ==
    /\ now = 0
    /\ cache = << >>
    /\ calls = 0
    /\ heap = [o \in 1..MaxCalls |-> NoPayload]
    /\ proc = [p \in Procs |-> IdleProc]
    /\ served = [k \in {BuildCacheKey(QueryParams(NowQuery(e, t))) :
                           e \in NowEndpoints, t \in 0..MaxTime} |-> NoServed]

\* the previous call read the clock at another second
ClockMoved(pr) == pr.pc = "idle" \/ pr.query.end_time.ms # now * 1000

(***************************************************************************)
(* SpecFetch: the Kandilli adapter from its first request to the status     *)
(* get_earthquakes records for it.  A page is a sequence of lines (token    *)
(* sequences); a tag is a line of one token.  An answer is a response with  *)
(* a status code and a page, or a transport error raised by client.get.     *)
(***************************************************************************)
KANDILLI_URL == "http://www.koeri.boun.edu.tr/scripts/lst9.asp"
KANDILLI_FALLBACK_URL == "https://www.koeri.boun.edu.tr/scripts/sondepremler.asp"

Pages ==
    { <<GoodLine>>,
      << <<"<html>">>, <<"<pre>">>, HeaderLine, GoodLine, <<"</pre>">>, <<"</html>">> >>,
      << <<"<html>">>, <<"<pre>">>, <<"</pre>">>, GoodLine >>,
      << <<"<html>">>, <<"<pre>">>, GoodLine >>,
      << >> }

Response(status_code, page) ==
    [kind |-> "response", status_code |-> status_code, page |-> page, cls |-> ""]

TransportError(cls) ==
    [kind |-> "error", status_code |-> 0, page |-> << >>, cls |-> cls]

Answers ==
    {Response(200, page) : page \in Pages}
    \cup {Response(code, << >>) : code \in {404, 500, 503}}
    \cup {TransportError(cls) : cls \in {"ConnectError", "ReadTimeout"}}

\* client.get raises, or raise_for_status does
RequestRaises(answer) ==
    answer.kind = "error" \/ answer.status_code >= 400

Raised(answer) ==
    IF answer.kind = "error" THEN answer.cls ELSE "HTTPStatusError"

\* line 322: re.search(r"<pre[^>]*>(.*?)</pre>", text, re.S | re.I)
PreMatch(text) ==
    LET opens == {i \in 1..Len(text) :
                     /\ text[i] = <<"<pre>">>
                     /\ \E j \in (i + 1)..Len(text) : text[j] = <<"</pre>">>}
        open == SetMin(opens)
        close == SetMin({j \in (open + 1)..Len(text) : text[j] = <<"</pre>">>})
    IN  IF opens = {} THEN text ELSE SubSeq(text, open + 1, close - 1)

FetchQuery ==
    KandQuery(DateTimeTz(0, None), DateTimeTz(DayLengthMs, None), 250, None)

NoStatus == Status(FALSE, "absent")

FetchInit ==
    kf = [pc |-> "primary",        \* primary | fallback | text | returned | raised | recorded
          requests |-> <<KANDILLI_URL>>,
          answers |-> << >>,
          text |-> << >>,
          result |-> NoResult,     \* what the task hands to gather
          status |-> NoStatus,     \* source_status["Kandilli"]
          kandilli_features |-> << >>]

\* an adapter that gives up after the first request
AfterPrimaryNoFallback(k, answer) ==
    IF RequestRaises(answer)
    THEN [k EXCEPT !.pc = "raised", !.answers = Append(@, answer),
                   !.result = [NoResult EXCEPT !.state = "exception",
                                  !.error = Raised(answer), !.task = "finished"]]
    ELSE [k EXCEPT !.pc = "text", !.answers = Append(@, answer),
                   !.text = answer.page]

\* lines 310-316: the first request; on any Exception the fallback request
AfterPrimary(k, answer) ==
    IF RequestRaises(answer)
    THEN [k EXCEPT !.pc = "fallback", !.answers = Append(@, answer),
                   !.requests = Append(@, KANDILLI_FALLBACK_URL)]
    ELSE [k EXCEPT !.pc = "text", !.answers = Append(@, answer),
                   !.text = answer.page]

\* lines 315-317: the fallback request is outside any try
AfterFallback(k, answer) ==
    IF RequestRaises(answer)
    THEN [k EXCEPT !.pc = "raised", !.answers = Append(@, answer),
                   !.result = [NoResult EXCEPT !.state = "exception",
                                  !.error = Raised(answer), !.task = "finished"]]
    ELSE [k EXCEPT !.pc = "text", !.answers = Append(@, answer),
                   !.text = answer.page]

FetchPrimaryAnswer(answer) ==
    /\ kf.pc = "primary"
    /\ kf' = AfterPrimary(kf, answer)
    /\ UNCHANGED <<matchVars, fuseVars, keyVars, sysVars, httpVars, kandVars, webVars>>

FetchFallbackAnswer(answer) ==
    /\ kf.pc = "fallback"
    /\ kf' = AfterFallback(kf, answer)
    /\ UNCHANGED <<matchVars, fuseVars, keyVars, sysVars, httpVars, kandVars, webVars>>

\* lines 535-539: the deadline passes while a request is awaited
FetchTimeout ==
    /\ kf.pc \in {"primary", "fallback"}
    /\ kf' = [kf EXCEPT !.pc = "raised", !.result = TaskResult("timeout")]
    /\ UNCHANGED <<matchVars, fuseVars, keyVars, sysVars, httpVars, kandVars, webVars>>

\* lines 319-320 and 196-221: the text, parsed and filtered, is returned
FetchReturn ==
    /\ kf.pc = "text"
    /\ kf' = [kf EXCEPT !.pc = "returned",
                 !.result = [NoResult EXCEPT !.state = "value", !.task = "finished",
                                !.features =
                                    GetKandilliFeatures(ParseKandilliText(PreMatch(kf.text)),
                                                        FetchQuery)]]
    /\ UNCHANGED <<matchVars, fuseVars, keyVars, sysVars, httpVars, kandVars, webVars>>

\* lines 130-141: gather hands the result over and the status is recorded
FetchRecord ==
    /\ kf.pc \in {"returned", "raised"}
    /\ kf' = [kf EXCEPT !.pc = "recorded",
                 !.status = SourceStatus(kf.result),
                 !.kandilli_features = ResultFeatures(kf.result)]
    /\ UNCHANGED <<matchVars, fuseVars, keyVars, sysVars, httpVars, kandVars, webVars>>

(***************************************************************************)
(* SpecAnalyze: POST /analyze of main.py.  A text is a sequence of pieces,  *)
(* a piece one character repeated n times or one literal fragment (a tag,   *)
(* a URL scheme, an event-handler attribute).  The body has passed the      *)
(* AnalyzeRequest validation: text is a str, analysis_type one of the enum. *)
(***************************************************************************)
Piece(tok, n) == [tok |-> tok, n |-> n]

Whitespace == {" ", "\n"}
\* "s," stands for the Turkish letter s with cedilla
Letters == {"a", "s,"}
Fragments == {"<script>", "</script>", "javascript:", "onclick=", "<iframe", "NUL"}

AnPieces ==
    {Piece(t, 1) : t \in Whitespace \cup Letters \cup {"."} \cup Fragments}
        \cup {Piece("a", 1000), Piece("a", 1001)}

MaxPieces == 2
AnTexts == SeqsUpTo(AnPieces, MaxPieces)
AnalysisType == {"yod", "atesman", "cetinkaya"}

\* str.strip(): leading and trailing whitespace removed
RECURSIVE LStrip(_)
LStrip(text) ==
    IF text = << >> THEN << >>
    ELSE IF Head(text).tok \in Whitespace THEN LStrip(Tail(text))
    ELSE text

RECURSIVE RStrip(_)
RStrip(text) ==
    IF text = << >> THEN << >>
    ELSE IF text[Len(text)].tok \in Whitespace
         THEN RStrip(SubSeq(text, 1, Len(text) - 1))
    ELSE text

Strip(text) == RStrip(LStrip(text))

ValueError(text) == [kind |-> "raise", cls |-> "ValueError", text |-> text]

\* main.py lines 132-222: the only failure of analyze_text on a str is the
\* empty text after strip(); every other text is split into sentences and
\* words and scored (the statistics are not part of the model)
AnalyzeText(text, analysis_type) ==
    IF Strip(text) = << >> THEN ValueError("text cannot be empty")
    ELSE [kind |-> "return", cls |-> "AnalyzeResponse", text |-> ""]

\* main.py lines 367-372: analyze_text is called on the text as received
AnalyzeEndpoint(text, analysis_type) ==
    LET out == AnalyzeText(text, analysis_type)
    IN  IF out.kind = "raise" /\ out.cls = "ValueError"
        THEN HTTPException(422, <<out.text>>)
        ELSE Returned

AnInit ==
    \E text \in AnTexts, t \in AnalysisType :
        an = [pc |-> "request", text |-> text, analysis_type |-> t,
              status |-> 0, detail |-> << >>]

AnAnalyze ==
    /\ an.pc = "request"
    /\ LET response == Respond(AnalyzeEndpoint(an.text, an.analysis_type))
       IN  an' = [an EXCEPT !.pc = "responded", !.status = response.status,
                     !.detail = response.detail]
    /\ UNCHANGED <<matchVars, fuseVars, keyVars, sysVars, httpVars, adapterVars,
                   pdfVars, rlVars>>

(***************************************************************************)
(* SpecPdf: GET /pdf/download/{file_id} (routers/pdf.py) over the file      *)
(* registry of PDFService.  Every await on aiofiles runs in a worker        *)
(* thread and suspends the handler, so two downloads interleave at these    *)
(* points; the code between two awaits runs without interruption.           *)
(***************************************************************************)
MaxDownloads == 2
Downloads == 1..MaxDownloads
FileIds == {"f1", "f2"}

\* the entry convert_to_word (one input) or merge_pdfs (two inputs) registers
Metadata(file_id, kind) ==
    [present |-> TRUE,
     input_paths |-> IF kind = "convert" THEN << <<file_id, "input">> >>
                     ELSE << <<file_id, "input_0">>, <<file_id, "input_1">> >>,
     output_path |-> <<file_id, "output">>]
NoMetadata == [present |-> FALSE, input_paths |-> << >>, output_path |-> << >>]

PathsOf(metadata) ==
    {metadata.input_paths[i] : i \in 1..Len(metadata.input_paths)}
        \cup {metadata.output_path}

IdleDownload ==
    [pc |-> "idle", file_id |-> "", metadata |-> NoMetadata, content |-> "",
     todo |-> << >>, status |-> 0]

PdfInit ==
    pdf = [pc |-> "on",
           registry |-> [f \in FileIds |-> NoMetadata],
           issued |-> {},
           disk |-> {},
           dl |-> [r \in Downloads |-> IdleDownload]]

\* a successful conversion or merge: the files are written, then the entry
\* is registered under a fresh uuid4 file_id
Register(state, file_id, kind) ==
    [state EXCEPT !.registry[file_id] = Metadata(file_id, kind),
                  !.issued = @ \cup {file_id},
                  !.disk = @ \cup PathsOf(Metadata(file_id, kind))]

\* pdf_service.py lines 266-336
PdfConvert(file_id) ==
    /\ pdf.pc = "on"
    /\ file_id \notin pdf.issued
    /\ pdf' = Register(pdf, file_id, "convert")
    /\ UNCHANGED <<matchVars, fuseVars, keyVars, sysVars, httpVars, adapterVars,
                   anVars, rlVars>>

\* pdf_service.py lines 368-450
PdfMerge(file_id) ==
    /\ pdf.pc = "on"
    /\ file_id \notin pdf.issued
    /\ pdf' = Register(pdf, file_id, "merge")
    /\ UNCHANGED <<matchVars, fuseVars, keyVars, sysVars, httpVars, adapterVars,
                   anVars, rlVars>>

Answer(d, status) == [d EXCEPT !.pc = "responded", !.status = status, !.todo = << >>]

\* pdf_service.py lines 494-503: registry and exists() checks, then the open
DownloadLookup(r, file_id) ==
    /\ pdf.pc = "on"
    /\ pdf.dl[r].pc = "idle"
    /\ LET metadata == pdf.registry[file_id]
           d == [pdf.dl[r] EXCEPT !.file_id = file_id]
       IN  pdf' = [pdf EXCEPT !.dl[r] =
                     IF ~metadata.present \/ metadata.output_path \notin pdf.disk
                     THEN Answer(d, 404)
                     ELSE [d EXCEPT !.pc = "open", !.metadata = metadata]]
    /\ UNCHANGED <<matchVars, fuseVars, keyVars, sysVars, httpVars, adapterVars,
                   anVars, rlVars>>

\* line 503: aiofiles.open; FileNotFoundError is not handled and FastAPI
\* answers 500
DownloadOpen(r) ==
    /\ pdf.pc = "on"
    /\ pdf.dl[r].pc = "open"
    /\ pdf' = [pdf EXCEPT !.dl[r] =
                 IF pdf.dl[r].metadata.output_path \in pdf.disk
                 THEN [@ EXCEPT !.pc = "read"]
                 ELSE Answer(@, 500)]
    /\ UNCHANGED <<matchVars, fuseVars, keyVars, sysVars, httpVars, adapterVars,
                   anVars, rlVars>>

\* line 504: the open handle still reads the content of a removed file
DownloadRead(r) ==
    /\ pdf.pc = "on"
    /\ pdf.dl[r].pc = "read"
    /\ pdf' = [pdf EXCEPT !.dl[r] =
                 [@ EXCEPT !.pc = "close", !.content = pdf.dl[r].file_id]]
    /\ UNCHANGED <<matchVars, fuseVars, keyVars, sysVars, httpVars, adapterVars,
                   anVars, rlVars>>

\* the paths delete_converted_file still has to remove: `if path.exists()`
\* skips a path without suspending
RECURSIVE SkipMissing(_, _)
SkipMissing(todo, disk) ==
    IF todo = << >> THEN << >>
    ELSE IF Head(todo) \in disk THEN todo
    ELSE SkipMissing(Tail(todo), disk)

\* pdf_service.py lines 513-541 up to the first awaited remove
AfterPop(d, metadata, disk) ==
    LET todo == SkipMissing(metadata.input_paths \o <<metadata.output_path>>, disk)
    IN  IF todo = << >> THEN Answer(d, 200)
        ELSE [d EXCEPT !.pc = "remove", !.todo = todo]

\* the file closes (line 503's context exit), get_converted_file returns and
\* the handler calls delete_converted_file (routers/pdf.py line 159): an
\* unknown file_id returns False, which the handler ignores
DownloadClose(r) ==
    /\ pdf.pc = "on"
    /\ pdf.dl[r].pc = "close"
    /\ LET file_id == pdf.dl[r].file_id
           metadata == pdf.registry[file_id]
       IN  IF ~metadata.present
           THEN pdf' = [pdf EXCEPT !.dl[r] = Answer(@, 200)]
           ELSE pdf' = [pdf EXCEPT !.registry[file_id] = NoMetadata,
                           !.dl[r] = AfterPop(@, metadata, pdf.disk)]
    /\ UNCHANGED <<matchVars, fuseVars, keyVars, sysVars, httpVars, adapterVars,
                   anVars, rlVars>>

\* one awaited aiofiles.os.remove; after the last one the handler returns
\* the Response with the content
DownloadRemove(r) ==
    /\ pdf.pc = "on"
    /\ pdf.dl[r].pc = "remove"
    /\ LET disk == pdf.disk \ {Head(pdf.dl[r].todo)}
           todo == SkipMissing(Tail(pdf.dl[r].todo), disk)
       IN  pdf' = [pdf EXCEPT !.disk = disk,
                     !.dl[r] = IF todo = << >> THEN Answer(@, 200)
                               ELSE [@ EXCEPT !.todo = todo]]
    /\ UNCHANGED <<matchVars, fuseVars, keyVars, sysVars, httpVars, adapterVars,
                   anVars, rlVars>>

(***************************************************************************)
(* SpecRate: RateLimitMiddleware.dispatch (security_middleware.py).  A key  *)
(* of request_counts is the text f"{client_ip}:{current_minute}"; the       *)
(* cleaning loop reads the minute back as int(k.split(':')[1]).  A text     *)
(* between two colons is a field: digits says whether int() accepts it, v   *)
(* the number it then yields.  dispatch has no await before call_next, so   *)
(* one request's bookkeeping is one step.                                   *)
(***************************************************************************)
RequestsPerMinute == 2   \* RateLimitMiddleware(requests_per_minute=...)
MaxMinute == 2           \* clock minutes after the first
MaxRequests == 4         \* requests in one behaviour

\* int(time.time() / 60) at 2024-01-15T00:00:00Z
EPOCH_MINUTE == 28421280
Minutes == 0..MaxMinute
CurrentMinute(minute) == EPOCH_MINUTE + minute

Digits(v) == [digits |-> TRUE, v |-> v]
Text == [digits |-> FALSE, v |-> 0]

ClientIps == {"10.0.0.1", "10.0.0.2", "::1", "2001:470::1"}

\* client_ip.split(':')
IpFields(client_ip) ==
    IF client_ip = "::1" THEN <<Text, Text, Digits(1)>>
    ELSE IF client_ip = "2001:470::1" THEN <<Digits(2001), Digits(470), Text, Digits(1)>>
    ELSE <<Text>>

\* f"{client_ip}:{current_minute}".split(':')
KeyFields(client_ip, minute) == IpFields(client_ip) \o <<Digits(CurrentMinute(minute))>>

\* the keys of request_counts: an absent key has count 0
RateKeys == ClientIps \X Minutes
Present(counts) == {k \in RateKeys : counts[k] > 0}

\* line 106: int(k.split(':')[1])
MinuteOfKey(k) == KeyFields(k[1], k[2])[2]

\* lines 105-108: ValueError when some key's second field is not a number,
\* otherwise the keys whose second field is below current_minute - 1
CleaningRaises(counts) == \E k \in Present(counts) : ~MinuteOfKey(k).digits
OldKeys(counts, minute) ==
    {k \in Present(counts) : MinuteOfKey(k).v < CurrentMinute(minute) - 1}

NoRequest == [client_ip |-> "", minute |-> 0, nth |-> 0, answer |-> ""]

RlInit ==
    rl = [pc |-> "on", minute |-> 0,
          request_counts |-> [k \in RateKeys |-> 0],
          arrived |-> [k \in RateKeys |-> 0],
          forwarded |-> [k \in RateKeys |-> 0],
          requests |-> 0,
          last |-> NoRequest]

\* lines 97-122.  An exception raised in dispatch reaches the server's error
\* handler, which answers 500; the request is not forwarded.
Dispatch(client_ip) ==
    /\ rl.pc = "on"
    /\ rl.requests < MaxRequests
    /\ LET key == <<client_ip, rl.minute>>
           nth == rl.arrived[key] + 1
           seen == [rl EXCEPT !.requests = @ + 1, !.arrived[key] = nth]
           cleaned == [k \in RateKeys |->
                          IF k \in OldKeys(rl.request_counts, rl.minute) THEN 0
                          ELSE rl.request_counts[k]]
           count == cleaned[key] + 1
           request == [client_ip |-> client_ip, minute |-> rl.minute, nth |-> nth,
                       answer |-> ""]
       IN  IF CleaningRaises(rl.request_counts)
           THEN rl' = [seen EXCEPT !.last = [request EXCEPT !.answer = "500"]]
           ELSE IF count > RequestsPerMinute
           THEN rl' = [seen EXCEPT !.request_counts = [cleaned EXCEPT ![key] = count],
                          !.last = [request EXCEPT !.answer = "429"]]
           ELSE rl' = [seen EXCEPT !.request_counts = [cleaned EXCEPT ![key] = count],
                          !.forwarded[key] = @ + 1,
                          !.last = [request EXCEPT !.answer = "forwarded"]]
    /\ UNCHANGED <<matchVars, fuseVars, keyVars, sysVars, httpVars, adapterVars,
                   anVars, pdfVars>>

\* the wall clock passes into the next minute
RlTick ==
    /\ rl.pc = "on"
    /\ rl.minute < MaxMinute
    /\ rl' = [rl EXCEPT !.minute = @ + 1]
    /\ UNCHANGED <<matchVars, fuseVars, keyVars, sysVars, httpVars, adapterVars,
                   anVars, pdfVars>>

(***************************************************************************)
(* Specifications                                                          *)
(***************************************************************************)
\* Spec: one caller, calls one after another, every provider outcome
Init == SysInit /\ PairIdle /\ ScanIdle /\ FuseIdle /\ KeyIdle /\ HttpIdle /\ KandIdle /\ FetchIdle /\ WebIdle

Next ==
    \/ \E q \in Queries : calls < MaxSeqCalls /\ Call(1, q)
    \/ \E body \in UsgsBodies : UsgsResponse(1, body)
    \/ UsgsTimeout(1)
    \/ \E how \in {"http", "other"} : UsgsError(1, how)
    \/ \E src \in Secondaries :
          \E origin \in SecondaryOutcomes[src] : SecondaryDone(1, src, origin)
    \/ \E src \in Secondaries : SecondaryTimeout(1, src)
    \/ Fuse(1)
    \/ Tick

Spec == Init /\ [][Next]_vars

\* SpecConc: overlapping calls, with one answer per provider (or its timeout)
InitConc == SysInit /\ PairIdle /\ ScanIdle /\ FuseIdle /\ KeyIdle /\ HttpIdle /\ KandIdle /\ FetchIdle /\ WebIdle

NextConc ==
    \/ \E p \in Procs, q \in Queries : Call(p, q)
    \/ \E p \in Procs : UsgsResponse(p, [features |-> <<SysU>>, metadata |-> TRUE])
    \/ \E p \in Procs : UsgsTimeout(p)
    \/ \E p \in Procs : UsgsError(p, "http")
    \/ \E p \in Procs : SecondaryDone(p, "Kandilli", "listing")
    \/ \E p \in Procs : SecondaryDone(p, "EMSC", "collection")
    \/ \E p \in Procs, src \in Secondaries : SecondaryTimeout(p, src)
    \/ \E p \in Procs : Fuse(p)
    \/ Tick

SpecConc == InitConc /\ [][NextConc]_vars

\* SpecNow: one caller, every call with an end_time read from the clock at
\* an instant no earlier call read
InitNow == NowInit /\ PairIdle /\ ScanIdle /\ FuseIdle /\ KeyIdle /\ HttpIdle /\ KandIdle /\ FetchIdle /\ WebIdle

NextNow ==
    \/ \E e \in NowEndpoints :
          calls < MaxSeqCalls /\ ClockMoved(proc[1]) /\ Call(1, NowQuery(e, now))
    \/ UsgsResponse(1, [features |-> <<SysU>>, metadata |-> TRUE])
    \/ UsgsTimeout(1)
    \/ UsgsError(1, "http")
    \/ SecondaryDone(1, "Kandilli", "listing")
    \/ SecondaryDone(1, "EMSC", "collection")
    \/ \E src \in Secondaries : SecondaryTimeout(1, src)
    \/ Fuse(1)
    \/ Tick

SpecNow == InitNow /\ [][NextNow]_vars

InitPair == PairInit /\ ScanIdle /\ FuseIdle /\ KeyIdle /\ SysIdle /\ HttpIdle /\ KandIdle /\ FetchIdle /\ WebIdle
NextPair == PairFindMatch \/ PairMergeAB \/ PairMergeBA
SpecPair == InitPair /\ [][NextPair]_vars

InitScan == ScanInit /\ PairIdle /\ FuseIdle /\ KeyIdle /\ SysIdle /\ HttpIdle /\ KandIdle /\ FetchIdle /\ WebIdle
NextScan == ScanFindMatch \/ ScanMerge
SpecScan == InitScan /\ [][NextScan]_vars

InitFuse == FuseInit /\ PairIdle /\ ScanIdle /\ KeyIdle /\ SysIdle /\ HttpIdle /\ KandIdle /\ FetchIdle /\ WebIdle
NextFuse == FuseApply
SpecFuse == InitFuse /\ [][NextFuse]_vars

InitKey == KeyInit /\ PairIdle /\ ScanIdle /\ FuseIdle /\ SysIdle /\ HttpIdle /\ KandIdle /\ FetchIdle /\ WebIdle
NextKey == KeyBuildA \/ KeyBuildB
SpecKey == InitKey /\ [][NextKey]_vars

InitHttp == HttpInit /\ PairIdle /\ ScanIdle /\ FuseIdle /\ KeyIdle /\ SysIdle /\ KandIdle /\ FetchIdle /\ WebIdle
NextHttp == HttpGetEarthquakes \/ (\E e \in Presets : HttpPreset(e)) \/ HttpRespond
SpecHttp == InitHttp /\ [][NextHttp]_vars

InitKandilli == KandInit /\ FetchIdle /\ PairIdle /\ ScanIdle /\ FuseIdle /\ KeyIdle /\ SysIdle /\ HttpIdle /\ WebIdle
NextKandilli == KandParse \/ KandFilter
SpecKandilli == InitKandilli /\ [][NextKandilli]_vars

InitFetch == FetchInit /\ KandIdle /\ PairIdle /\ ScanIdle /\ FuseIdle /\ KeyIdle /\ SysIdle /\ HttpIdle /\ WebIdle
NextFetch ==
    \/ \E answer \in Answers : FetchPrimaryAnswer(answer)
    \/ \E answer \in Answers : FetchFallbackAnswer(answer)
    \/ FetchTimeout
    \/ FetchReturn
    \/ FetchRecord
SpecFetch == InitFetch /\ [][NextFetch]_vars

InitAnalyze == AnInit /\ PairIdle /\ ScanIdle /\ FuseIdle /\ KeyIdle /\ SysIdle /\ HttpIdle /\ KandIdle /\ FetchIdle /\ PdfIdle /\ RlIdle
NextAnalyze == AnAnalyze
SpecAnalyze == InitAnalyze /\ [][NextAnalyze]_vars

InitPdf == PdfInit /\ PairIdle /\ ScanIdle /\ FuseIdle /\ KeyIdle /\ SysIdle /\ HttpIdle /\ KandIdle /\ FetchIdle /\ AnIdle /\ RlIdle
NextPdf ==
    \/ \E f \in FileIds : PdfConvert(f)
    \/ \E f \in FileIds : PdfMerge(f)
    \/ \E r \in Downloads, f \in FileIds : DownloadLookup(r, f)
    \/ \E r \in Downloads : DownloadOpen(r)
    \/ \E r \in Downloads : DownloadRead(r)
    \/ \E r \in Downloads : DownloadClose(r)
    \/ \E r \in Downloads : DownloadRemove(r)
SpecPdf == InitPdf /\ [][NextPdf]_vars

InitRate == RlInit /\ PairIdle /\ ScanIdle /\ FuseIdle /\ KeyIdle /\ SysIdle /\ HttpIdle /\ KandIdle /\ FetchIdle /\ AnIdle /\ PdfIdle
NextRate == (\E ip \in ClientIps : Dispatch(ip)) \/ RlTick
SpecRate == InitRate /\ [][NextRate]_vars


(***************************************************************************)
(* Claims                                                                  *)
(***************************************************************************)
PrimaryFailed(pr) == pr.primary \in {"timeout", "http", "other"}

Fetched(pr) == pr.pc = "done" /\ ~pr.hit

\* C1 as stated: whenever the primary fetch fails while the cache holds an
\* entry of the same key, expired or not, the call does not fail and returns
\* that entry's payload.
C1_FallbackOnAnyFailure ==
    \A p \in Procs :
        (PrimaryFailed(proc[p]) /\ proc[p].entry \in {"live", "expired"})
            => /\ proc[p].pc # "failed"
               /\ proc[p].pc = "done" => proc[p].ret = proc[p].entryObj

\* C1 amended: a primary timeout with an unexpired entry of the same key
\* does not fail the call, which goes on with that entry's payload object as
\* `data` and returns that object; a primary timeout with no entry or an
\* expired one, and every other primary failure, fails the call.
C1_FallbackOnTimeoutWithLiveEntry ==
    \A p \in Procs :
        /\ (proc[p].primary = "timeout" /\ proc[p].entry = "live")
              => /\ proc[p].pc \in {"gather", "done"}
                 /\ proc[p].data = proc[p].entryObj
                 /\ proc[p].pc = "done" => proc[p].ret = proc[p].entryObj
        /\ (proc[p].primary = "timeout" /\ proc[p].entry \in {"none", "expired"})
              => proc[p].pc = "failed"
        /\ proc[p].primary \in {"http", "other"} => proc[p].pc = "failed"

C1_Witness ==
    \E p \in Procs :
        /\ proc[p].primary = "timeout" /\ proc[p].entry = "live"
        /\ proc[p].pc = "done" /\ proc[p].ret = proc[p].entryObj
        /\ proc[p].response.features # << >>

OtherSecondary(src) == IF src = "Kandilli" THEN "EMSC" ELSE "Kandilli"

\* C2: a secondary adapter that never returns is cut off at the deadline: no
\* call waits for its secondaries longer than SOURCE_TIMEOUT_SECONDS, the
\* source is recorded ok=false and contributes no event, and the returned
\* features are the primary events followed by the other secondary's events.
C2_TimeoutIsolation ==
    \A p \in Procs :
        /\ proc[p].pc = "gather" => now - proc[p].started <= SOURCE_TIMEOUT_SECONDS
        /\ \A src \in Secondaries :
              (Fetched(proc[p]) /\ ResultOf(proc[p], src).origin = "timeout")
                 => /\ ~proc[p].source_status[src].ok
                    /\ proc[p].response.metadata.present
                          => ~proc[p].response.metadata.sources[src].ok
                    /\ \A i \in 1..Len(proc[p].response.features) :
                          i > Len(proc[p].base)
                             => proc[p].response.features[i].source = OtherSecondary(src)
                    /\ StripGroup(proc[p].response.features)
                          = StripGroup(MergeBase(proc[p].base)
                               \o ResultOf(proc[p], OtherSecondary(src)).features)

C2_Witness ==
    \E p \in Procs :
        /\ Fetched(proc[p])
        /\ proc[p].kandilli_result.origin = "timeout"
        /\ proc[p].emsc_result.origin = "collection"
        /\ proc[p].base # << >>
        /\ Len(proc[p].response.features) = 2
        /\ ~proc[p].source_status["Kandilli"].ok
        /\ proc[p].source_status["EMSC"].ok

SecondaryFailures == {"timeout", "transport", "http", "notjson", "garbage"}

\* C3 as stated: every secondary failure, a malformed payload included, is
\* recorded ok=false with an error string and an empty list, and never fails
\* the call.
C3_EveryFailureRecorded ==
    \A p \in Procs :
        /\ proc[p].pc = "failed" => PrimaryFailed(proc[p])
        /\ \A src \in Secondaries :
              (Fetched(proc[p]) /\ ResultOf(proc[p], src).origin \in SecondaryFailures)
                 => /\ ~proc[p].source_status[src].ok
                    /\ proc[p].source_status[src].error # ""
                    /\ ResultFeatures(ResultOf(proc[p], src)) = << >>

\* C3 amended: a secondary adapter that raises (timeout, transport error,
\* HTTP error status, EMSC body that is not JSON) is recorded ok=false with
\* the error text and an empty list; a Kandilli text with no parseable line
\* raises nothing and is recorded ok=true with an empty list; in both cases
\* the call does not fail, and a call fails only when its primary fetch failed.
C3_RaisedFailuresRecorded ==
    \A p \in Procs :
        /\ proc[p].pc = "failed" => PrimaryFailed(proc[p])
        /\ \A src \in Secondaries :
              /\ (Fetched(proc[p])
                     /\ ResultOf(proc[p], src).origin \in SecondaryFailures \ {"garbage"})
                    => /\ ~proc[p].source_status[src].ok
                       /\ proc[p].source_status[src].error # ""
                       /\ ResultFeatures(ResultOf(proc[p], src)) = << >>
              /\ (Fetched(proc[p]) /\ ResultOf(proc[p], src).origin = "garbage")
                    => /\ proc[p].source_status[src].ok
                       /\ ResultFeatures(ResultOf(proc[p], src)) = << >>

C3_Witness ==
    \E p \in Procs :
        /\ Fetched(proc[p])
        /\ proc[p].kandilli_result.origin = "http"
        /\ proc[p].emsc_result.origin = "notjson"
        /\ ~proc[p].source_status["Kandilli"].ok
        /\ ~proc[p].source_status["EMSC"].ok
        /\ proc[p].response.features # << >>

Called(pr) == pr.pc # "idle"

\* C4 as stated: a call made within Ttl of a completed call of the same
\* query is answered from the cache, with that call's payload and without a
\* request to any provider.
C4_RepeatWithinTtl ==
    \A p \in Procs :
        (Called(proc[p]) /\ proc[p].inWindow)
            => /\ proc[p].hit
               /\ proc[p].requested = {}
               /\ proc[p].response = proc[p].servedAtCall

\* C4 amended: a call made within Ttl of the latest call that stored the
\* entry of its key, while that entry is still stored (not evicted to make
\* room for another key), is answered from the cache with the payload that
\* storing call returned, and sends no request to any provider.
C4_RepeatWhileStored ==
    \A p \in Procs :
        (Called(proc[p]) /\ proc[p].inWindow /\ proc[p].storedAtCall)
            => /\ proc[p].hit
               /\ proc[p].pc = "done"
               /\ proc[p].requested = {}
               /\ proc[p].response = proc[p].servedAtCall

C4_Witness ==
    \E p \in Procs :
        /\ proc[p].inWindow /\ proc[p].storedAtCall
        /\ proc[p].hit /\ proc[p].pc = "done"
        /\ Len(proc[p].response.features) = 3
        /\ proc[p].response = proc[p].servedAtCall


\* C5: the cache key depends only on the set of (name, value) entries: two
\* maps with the same entries in any insertion order get the same key, and
\* maps whose entries differ are serialized differently (so their keys are
\* digests of different texts).
C5_KeyOrderIndependent ==
    (keyA # NoKey /\ keyB # NoKey)
        => /\ EntrySet(kpA) = EntrySet(kpB) => keyA = keyB
           /\ EntrySet(kpA) # EntrySet(kpB) => keyA.md5_of # keyB.md5_of

C5_Witness ==
    /\ keyA # NoKey /\ keyB # NoKey
    /\ kpA # kpB
    /\ Len(kpA) = 4
    /\ EntrySet(kpA) = EntrySet(kpB)
    /\ keyA = keyB

\* the tolerances as the claims state them
Near(a, b) ==
    /\ a.time - b.time \in -300000..300000
    /\ a.mag - b.mag \in -30..30
    /\ a.lat - b.lat \in -20..20
    /\ a.lon - b.lon \in -20..20

Linked(pair) ==
    /\ Len(pair) = 2
    /\ pair[1].match_group # 0
    /\ pair[1].match_group = pair[2].match_group

\* C6: two events of different sources within all four tolerances are linked
\* whichever of them is the base event: both fusions have two events, and
\* both events carry one and the same match_group.
C6_DedupSymmetry ==
    (HasRequired(evA) /\ HasRequired(evB) /\ Near(evA, evB))
        => /\ pairAB # << >> => Linked(pairAB)
           /\ pairBA # << >> => Linked(pairBA)

C6_Witness ==
    /\ evA.id # evB.id
    /\ evB.time - evA.time = 300000
    /\ evB.mag - evA.mag = -30
    /\ evB.lat - evA.lat = 20
    /\ Linked(pairAB) /\ Linked(pairBA)
    /\ pairAB[1].id = evA.id /\ pairBA[1].id = evB.id

\* C7: for two events with different identifiers and all required fields,
\* _find_match returns the existing event exactly when all four differences
\* are within their tolerances, bounds included (a magnitude difference of
\* 0.29 or 0.30 links, one of 0.31 does not).
C7_MatchIffWithinTolerance ==
    (pairMatch # -1 /\ evA.id # evB.id /\ HasRequired(evA) /\ HasRequired(evB))
        => (pairMatch = 1 <=> Near(evA, evB))

C7_Witness ==
    /\ pairMatch = 1
    /\ evA.id # evB.id
    /\ evB.mag - evA.mag = 30
    /\ evB.lon - evA.lon = 20
    /\ evB.time - evA.time = -300000

\* C8: fusion keeps every event: the fused list is the primary list (each
\* event given the source USGS if it had none), then the Kandilli list, then
\* the EMSC list, each in its order, and differs from that concatenation in
\* match_group tags only.
C8_FusionRetainsEveryEvent ==
    fpc = "fused"
        => /\ Len(fOut) = Len(fBase) + Len(fKand) + Len(fEmsc)
           /\ StripGroup(fOut) = MergeBase(fBase) \o fKand \o fEmsc

C8_Witness ==
    /\ fpc = "fused"
    /\ Len(fBase) = 2 /\ Len(fKand) = 2 /\ Len(fEmsc) = 2
    /\ Len(fOut) = 6
    /\ \E i \in 1..Len(fOut) : fOut[i].match_group # 0

\* C9: two events of a fused list carry the same match_group only if matching
\* linked them, directly or through the events they matched.
C9_GroupsOnlyAmongLinked ==
    fpc = "fused"
        => \A i, j \in 1..Len(fOut) :
              (fOut[i].match_group # 0 /\ fOut[i].match_group = fOut[j].match_group)
                 => RootOf(fOut, Len(fBase), i) = RootOf(fOut, Len(fBase), j)

\* C10: an incoming event is never linked to an event of its own source, and
\* an event carries a match_group only if it is linked with an event of
\* another source.
C10_LinksAreCrossSource ==
    fpc = "fused"
        => \A i \in 1..Len(fOut) :
              /\ LinkOf(fOut, Len(fBase), i) # 0
                    => fOut[LinkOf(fOut, Len(fBase), i)].source # fOut[i].source
              /\ fOut[i].match_group # 0
                    => \E j \in 1..Len(fOut) :
                          /\ fOut[j].source # fOut[i].source
                          /\ fOut[j].match_group = fOut[i].match_group

\* C11: every event of a fused list, primary events included, has a time, a
\* magnitude, a latitude and a longitude; a record missing one of them never
\* reaches the list.
C11_EveryEventHasRequiredFields ==
    fpc = "fused" => \A i \in 1..Len(fOut) : HasRequired(fOut[i])

\* C12: a call that does not fail returns a payload whose metadata holds the
\* per-source status map; a call never both fails and returns a payload.
C12_PayloadCarriesSources ==
    \A p \in Procs :
        /\ proc[p].pc = "failed" => proc[p].response = NoPayload
        /\ proc[p].pc = "done"
              => /\ proc[p].error = ""
                 /\ proc[p].response.metadata.present
                 /\ proc[p].response.metadata.has_sources

\* C13: a primary fetch that fails (timeout, HTTP error status, any other
\* error) while the cache holds no entry of the key fails the call with a
\* RuntimeError, and no payload is returned.
C13_PrimaryFailureWithoutEntryFails ==
    \A p \in Procs :
        (PrimaryFailed(proc[p]) /\ proc[p].entry = "none")
            => /\ proc[p].pc = "failed"
               /\ proc[p].error \in {"USGS API timeout", "USGS API error",
                                     "Failed to fetch earthquake data"}
               /\ proc[p].ret = 0
               /\ proc[p].response = NoPayload

C13_Witness ==
    \E p \in Procs :
        /\ proc[p].primary = "other" /\ proc[p].entry = "none"
        /\ proc[p].pc = "failed"
        /\ proc[p].error = "Failed to fetch earthquake data"
        /\ proc[p].requested = {"USGS"}

\* C14: on every endpoint a RuntimeError of the core is answered 503 and any
\* other exception of the core is answered 500.
C14_HttpStatusOfCoreFailure ==
    (http.pc = "responded" /\ \E out \in http.core : out.kind = "raise")
        => \A out \in http.core :
              /\ out.cls = "RuntimeError" => http.status = 503
              /\ out.cls # "RuntimeError" => http.status = 500

C14_Witness ==
    /\ http.pc = "responded"
    /\ http.endpoint = "earthquakes"
    /\ \E out \in http.core : out.cls = "TypeError"
    /\ http.status = 500
    /\ http.detail = <<"Internal error: ", "bad payload">>

\* C15 as stated: on a miss the three fetches are initiated together, so
\* while the primary fetch is outstanding the secondary requests are already
\* in flight.
C15_AllThreeInFlightTogether ==
    \A p \in Procs :
        proc[p].pc = "usgs"
            => /\ Secondaries \subseteq proc[p].requested
               /\ proc[p].kandilli_result.state = "pending"
               /\ proc[p].emsc_result.state = "pending"

\* C15 amended: on a miss the primary fetch runs alone and is awaited to its
\* end; only when it has given a payload are the two secondary fetches
\* initiated, both together, and they are awaited jointly: the call goes on
\* only when both have returned, raised or timed out.
C15_SecondariesAfterPrimary ==
    \A p \in Procs :
        /\ proc[p].pc = "usgs"
              => /\ proc[p].requested = {"USGS"}
                 /\ proc[p].kandilli_result.state = "none"
                 /\ proc[p].emsc_result.state = "none"
        /\ proc[p].pc = "gather"
              => /\ proc[p].primary \in {"ok", "timeout"}
                 /\ proc[p].requested = {"USGS"} \cup Secondaries
                 /\ proc[p].kandilli_result.state # "none"
                 /\ proc[p].emsc_result.state # "none"
        /\ Fetched(proc[p])
              => /\ proc[p].kandilli_result.state \in {"value", "exception"}
                 /\ proc[p].emsc_result.state \in {"value", "exception"}

C15_Witness ==
    \E p \in Procs :
        /\ proc[p].pc = "gather"
        /\ proc[p].primary = "ok"
        /\ proc[p].kandilli_result.state = "pending"
        /\ proc[p].emsc_result.state = "pending"
        /\ now = proc[p].started

\* C16: a payload stored in the cache is never modified after insertion: in
\* every step, a payload object that the cache holds before and after the
\* step has the same content (features, their match_group tags, metadata).
C16_StoredPayloadNeverModified ==
    [][\A k \in DOMAIN served :
          (/\ CacheStored(cache, k)
           /\ CacheStored(cache', k)
           /\ CacheEntry(cache', k).obj = CacheEntry(cache, k).obj)
              => heap'[CacheEntry(cache, k).obj] = heap[CacheEntry(cache, k).obj]]_vars

\* ---- the Kandilli claims, in the terms of the format description
\* the line begins with a calendar-valid YYYY.MM.DD HH:MM:SS timestamp
StampedLine(parts) ==
    /\ Len(parts) >= 2
    /\ parts[1] \in {"2024.01.15", "2024.01.16"}
    /\ parts[2] \in {"02:59:59", "03:00:00", "08:30:00"}

Numeric(tok) == tok \in DOMAIN FloatOf

\* timestamp, at least 6 fields, parseable latitude, longitude and depth
DataLine(parts) ==
    /\ StampedLine(parts)
    /\ Len(parts) >= 6
    /\ Numeric(parts[3]) /\ Numeric(parts[4]) /\ Numeric(parts[5])

HasMagnitude(parts) == \E i \in 6..Len(parts) : Numeric(parts[i])

\* first parseable of the three magnitude columns, else the first numeric
\* token of the columns after them
ExpectedMag(parts) ==
    LET cols == {i \in 6..Len(parts) : i <= 8 /\ Numeric(parts[i])}
        later == {i \in 9..Len(parts) : Numeric(parts[i])}
    IN  IF cols # {} THEN FloatOf[parts[SetMin(cols)]]
        ELSE FloatOf[parts[SetMin(later)]]

ExpectedPlace(parts) == SubSeqFrom(parts, 9)

\* the timestamp read at UTC+3, in ms from 2024-01-15T00:00:00Z
ExpectedTimeMs(parts) ==
    DayMs[parts[1]] + TimeOfDayMs[parts[2]] - 3 * 3600 * 1000

\* position, in the parsed list, of the event of line i when every data line
\* up to i gave one event
EventOfDataLine(i) ==
    Cardinality({j \in 1..i : DataLine(kand.lines[j])})

EventOfLine(i) ==
    Cardinality({j \in 1..i :
                    DataLine(kand.lines[j]) /\ HasMagnitude(kand.lines[j])})

IsExpectedEvent(f, parts) ==
    /\ f.mag = ExpectedMag(parts)
    /\ f.place = ExpectedPlace(parts)
    /\ f.time = ExpectedTimeMs(parts)
    /\ f.lat = FloatOf[parts[3]] /\ f.lon = FloatOf[parts[4]]

\* C17 as stated: every line with a timestamp, at least 6 fields and
\* parseable latitude, longitude and depth gives one event, with the
\* magnitude, place and time described.
C17_EveryDataLineGivesEvent ==
    kand.pc # "off" /\ kand.pc # "text"
        => \A i \in 1..Len(kand.lines) :
              DataLine(kand.lines[i])
                 => /\ EventOfDataLine(i) <= Len(kand.features)
                    /\ HasMagnitude(kand.lines[i])
                    /\ IsExpectedEvent(kand.features[EventOfDataLine(i)],
                                       kand.lines[i])

\* C17 amended: every such line that also has a numeric token among the
\* columns after the depth gives one event: its magnitude is the first
\* parseable of the three magnitude columns, else the first numeric token
\* after them; its place is the tokens after the three magnitude columns; its
\* time is the timestamp read at UTC+3.
C17_DataLineWithMagnitudeGivesEvent ==
    kand.pc # "off" /\ kand.pc # "text"
        => \A i \in 1..Len(kand.lines) :
              (DataLine(kand.lines[i]) /\ HasMagnitude(kand.lines[i]))
                 => /\ EventOfLine(i) <= Len(kand.features)
                    /\ IsExpectedEvent(kand.features[EventOfLine(i)],
                                       kand.lines[i])

C17_Witness ==
    /\ kand.pc = "parsed"
    /\ kand.lines = << <<"2024.01.15", "08:30:00", "39.10", "27,50", "5.0",
                         "-.-", "--", "---", "GOKOVA", "2.0", "Ilksel">> >>
    /\ Len(kand.features) = 1
    /\ kand.features[1].mag = 200
    /\ kand.features[1].place = <<"GOKOVA", "2.0", "Ilksel">>
    /\ kand.features[1].time = (5 * 3600 + 30 * 60) * 1000

\* a line that does not begin with the timestamp, has fewer than 6 fields, or
\* lacks a parseable latitude, longitude, depth or magnitude
MalformedLine(parts) == ~(DataLine(parts) /\ HasMagnitude(parts))

RemoveAt(seq, i) == SubSeq(seq, 1, i - 1) \o SubSeq(seq, i + 1, Len(seq))

\* C18: parsing always ends with a list; a malformed line contributes no
\* event, and the events of the other lines are those the text without that
\* line gives.
C18_MalformedLinesAreSkipped ==
    kand.pc # "off" /\ kand.pc # "text"
        => /\ Len(kand.features)
                 = Cardinality({i \in 1..Len(kand.lines) :
                                   ~MalformedLine(kand.lines[i])})
           /\ \A i \in 1..Len(kand.lines) :
                 MalformedLine(kand.lines[i])
                    => kand.features = ParseKandilliText(RemoveAt(kand.lines, i))

C18_Witness ==
    /\ kand.pc = "parsed"
    /\ Len(kand.lines) = 2
    /\ Len(kand.lines[1]) = 9
    /\ kand.lines[1][1] = "2024.13.45"
    /\ kand.lines[1][3] = "39.10"
    /\ kand.lines[2] = GoodLine
    /\ Len(kand.features) = 1
    /\ kand.features[1].mag = 320
    /\ kand.features[1].place = <<"IZMIR">>

\* every query of KandQueries asks for the UTC day 2024-01-15T00:00:00Z to
\* 2024-01-16T00:00:00Z; the event is inside the window and the bounds
InQuery(f) ==
    /\ 0 <= f.time /\ f.time <= DayLengthMs
    /\ f.mag >= kand.query.min_magnitude
    /\ kand.query.max_magnitude # None => f.mag <= kand.query.max_magnitude

\* C19: the adapter returns exactly the parsed events inside the window
\* (bounds included, in UTC ms) and the magnitude bounds, in parsed order.
C19_FilterKeepsExactlyEventsInQuery ==
    kand.pc = "filtered"
        => kand.filtered = SelectSeq(kand.features, InQuery)

C19_Witness ==
    /\ kand.pc = "filtered"
    /\ kand.query.start_time.tz # None
    /\ Len(kand.features) = 2
    /\ kand.features[1].time = -1000
    /\ kand.features[1].mag = 410
    /\ kand.filtered = <<kand.features[2]>>

\* C20: the fused list is a function of the three provider lists, not of the
\* order in which the secondary fetches end: two calls with the same primary
\* list and the same secondary results return the same features with the same
\* match_group tags, and the events stand primary first, then Kandilli, then
\* EMSC.
C20_FusionIgnoresCompletionOrder ==
    \A p \in Procs :
        Fetched(proc[p])
            => /\ StripGroup(proc[p].response.features)
                     = StripGroup(MergeBase(proc[p].base)
                          \o ResultFeatures(proc[p].kandilli_result)
                          \o ResultFeatures(proc[p].emsc_result))
               /\ \A r \in Procs :
                     (/\ Fetched(proc[r])
                      /\ proc[r].base = proc[p].base
                      /\ ResultFeatures(proc[r].kandilli_result)
                            = ResultFeatures(proc[p].kandilli_result)
                      /\ ResultFeatures(proc[r].emsc_result)
                            = ResultFeatures(proc[p].emsc_result))
                        => proc[r].response.features = proc[p].response.features

C20_Witness ==
    \E p, r \in Procs :
        /\ Fetched(proc[p]) /\ Fetched(proc[r])
        /\ proc[p].kandilli_result.nth = 1 /\ proc[p].emsc_result.nth = 2
        /\ proc[r].kandilli_result.nth = 2 /\ proc[r].emsc_result.nth = 1
        /\ proc[p].base = <<SysU>> /\ proc[r].base = <<SysU>>
        /\ Len(proc[p].response.features) = 3
        /\ proc[r].response.features = proc[p].response.features

Contains(text, tok) == \E i \in 1..Len(text) : text[i].tok = tok

\* a script element, a javascript: URL, an on<event>= attribute, an iframe
\* tag or a null byte
Unsafe(text) ==
    \/ \E i, j \in 1..Len(text) :
          i < j /\ text[i].tok = "<script>" /\ text[j].tok = "</script>"
    \/ Contains(text, "javascript:")
    \/ Contains(text, "onclick=")
    \/ Contains(text, "<iframe")
    \/ Contains(text, "NUL")

Blank(text) == \A i \in 1..Len(text) : text[i].tok \in Whitespace

Repetitive(text) == \E i \in 1..Len(text) : text[i].n > 1000

ValidTurkish(text) ==
    /\ ~Blank(text) /\ ~Unsafe(text) /\ ~Repetitive(text)
    /\ \A i \in 1..Len(text) : text[i].tok \in Letters \cup Whitespace \cup {"."}
    /\ \E i \in 1..Len(text) : text[i].tok \in Letters

\* C23: POST /analyze answers 422 for a text that contains a script tag, a
\* javascript: URL, an on<event>= handler, an iframe tag or a null byte, that
\* is empty or whitespace-only, or that repeats one character more than 1000
\* times in a row, and 200 for valid Turkish text.
C23_AnalyzeRejectsUnsafeText ==
    an.pc = "responded"
       => /\ (Unsafe(an.text) \/ Blank(an.text) \/ Repetitive(an.text))
                => an.status = 422
          /\ ValidTurkish(an.text) => an.status = 200

Succeeded(r) == pdf.dl[r].pc = "responded" /\ pdf.dl[r].status = 200

\* C24: a converted or merged file is a one-time download: after a download
\* of a file_id has succeeded the file_id is gone from the registry and its
\* files are deleted, every other answered download of the same file_id got
\* 404, and the content was served at most once.
C24_OneTimeDownload ==
    pdf.pc = "on"
       => \A r \in Downloads :
             Succeeded(r)
                => /\ ~pdf.registry[pdf.dl[r].file_id].present
                   /\ PathsOf(pdf.dl[r].metadata) \cap pdf.disk = {}
                   /\ \A o \in Downloads \ {r} :
                         (pdf.dl[o].file_id = pdf.dl[r].file_id
                            /\ pdf.dl[o].pc = "responded")
                            => pdf.dl[o].status = 404

\* C25: for each client IP and clock minute at most requests_per_minute
\* requests are forwarded; every further request of that IP in that minute is
\* answered 429 and not forwarded, and requests of other IPs or of a later
\* minute are counted separately (the n-th request of an IP within a minute
\* is forwarded exactly when n <= requests_per_minute).
C25_RateLimitPerIpAndMinute ==
    rl.pc = "on"
       => /\ \A k \in RateKeys : rl.forwarded[k] <= RequestsPerMinute
          /\ rl.last.nth > RequestsPerMinute => rl.last.answer = "429"
          /\ (rl.last.nth >= 1 /\ rl.last.nth <= RequestsPerMinute)
                => rl.last.answer = "forwarded"

FellBack(pr) == Fetched(pr) /\ pr.primary = "timeout" /\ pr.entry = "live"

\* C26: when the primary-timeout fallback serves a cached entry, the payload
\* returned is that entry as it was stored (same features, match_group tags
\* and metadata) and no event appears twice in the returned features.
C26_FallbackReturnsStoredEntry ==
    \A p \in Procs :
        FellBack(proc[p])
           => /\ proc[p].response = proc[p].stored
              /\ \A i, j \in 1..Len(proc[p].response.features) :
                    StripGroup(proc[p].response.features)[i]
                       = StripGroup(proc[p].response.features)[j] => i = j

SameId(cand, item) == cand.id # "" /\ item.id = cand.id

LacksField == ~HasRequired(evA) \/ ~HasRequired(evB)

\* C27 as stated: an event that lacks a required field abstains from matching
\* in both roles: as the incoming event it is appended without a match_group,
\* as the existing event it is never chosen as the match.
C27_MissingFieldAbstains ==
    /\ (pairMatch # -1 /\ LacksField) => pairMatch = 0
    /\ (pairAB # << >> /\ LacksField)
          => pairAB[1].match_group = 0 /\ pairAB[2].match_group = 0
    /\ (pairBA # << >> /\ LacksField)
          => pairBA[1].match_group = 0 /\ pairBA[2].match_group = 0

\* C27 amended: an event that lacks a required field abstains from the
\* tolerance matching in both roles: unless the incoming event's non-empty id
\* equals the existing event's id, it is appended without a match_group and
\* never chosen as a match; with equal ids the two are linked whatever fields
\* they lack.
C27_MissingFieldAbstainsUnlessSameId ==
    /\ (pairMatch # -1 /\ LacksField)
          => pairMatch = IF SameId(evB, evA) THEN 1 ELSE 0
    /\ (pairAB # << >> /\ LacksField)
          => /\ Len(pairAB) = 2
             /\ pairAB[1].match_group = (IF SameId(evB, evA) THEN 1 ELSE 0)
             /\ pairAB[2].match_group = pairAB[1].match_group
    /\ (pairBA # << >> /\ LacksField)
          => /\ Len(pairBA) = 2
             /\ pairBA[1].match_group = (IF SameId(evA, evB) THEN 1 ELSE 0)
             /\ pairBA[2].match_group = pairBA[1].match_group

\* both events lack the magnitude and agree in everything else but the id
C27_Witness ==
    /\ evA.mag = None /\ evB.mag = None
    /\ evB.id = "b" /\ evB.time = 0 /\ evB.lat = 0 /\ evB.lon = 0
    /\ pairMatch = 0
    /\ pairAB # << >> /\ pairAB[2].match_group = 0
    /\ pairBA # << >> /\ pairBA[2].match_group = 0

\* the merged list after the first (Kandilli) pass
AfterKandilli == MergeFeatures(fBase, fKand)

\* C28: an incoming event that matches a merged event already carrying a
\* match_group receives that identifier, and the matched event keeps it; an
\* identifier is generated only through a match, for a matched event that
\* carries none, and then both get it.  So every record ends with the
\* identifier of the record it was linked to, a record that neither matched
\* nor was matched has none, and an event reported by all three sources has
\* one identifier on its three records.
C28_MatchedGroupIsReused ==
    fpc = "fused"
       => /\ Len(fOut) = Len(fBase) + Len(fKand) + Len(fEmsc)
          /\ \A j \in 1..Len(AfterKandilli) :
                AfterKandilli[j].match_group # 0
                   => fOut[j].match_group = AfterKandilli[j].match_group
          /\ \A i \in 1..Len(fOut) :
                LET m == LinkOf(fOut, Len(fBase), i)
                IN  /\ m # 0
                          => /\ fOut[i].match_group # 0
                             /\ fOut[i].match_group = fOut[m].match_group
                    /\ fOut[i].match_group # 0
                          => \/ m # 0
                             \/ \E j \in (i + 1)..Len(fOut) :
                                   LinkOf(fOut, Len(fBase), j) = i
                    /\ (i > Len(AfterKandilli) /\ m # 0 /\ m <= Len(AfterKandilli)
                           /\ AfterKandilli[m].match_group # 0)
                          => fOut[i].match_group = AfterKandilli[m].match_group

\* one USGS event matched by a Kandilli record, which generates the
\* identifier, and then by an EMSC record, which receives it
C28_Witness ==
    /\ fpc = "fused"
    /\ Len(fBase) = 1 /\ Len(fKand) = 1 /\ Len(fEmsc) = 1
    /\ LinkOf(fOut, 1, 2) = 1 /\ LinkOf(fOut, 1, 3) = 1
    /\ fBase[1].match_group = 0
    /\ AfterKandilli[1].match_group = 1
    /\ \A i \in 1..3 : fOut[i].match_group = 1

Fits(c, merged) ==
    {j \in 1..Len(merged) :
        /\ c.time # None /\ c.mag # None /\ c.lat # None /\ c.lon # None
        /\ merged[j].time # None /\ merged[j].mag # None
        /\ merged[j].lat # None /\ merged[j].lon # None
        /\ Abs(merged[j].time - c.time) <= TIME_TOLERANCE_MS
        /\ Abs(merged[j].mag - c.mag) <= MAG_TOLERANCE
        /\ Abs(merged[j].lat - c.lat) <= COORD_TOLERANCE_DEG
        /\ Abs(merged[j].lon - c.lon) <= COORD_TOLERANCE_DEG}

WithId(c, merged) ==
    {j \in 1..Len(merged) : c.id # "" /\ merged[j].id = c.id}

Tagged(merged) == {j \in 1..Len(merged) : merged[j].match_group # 0}

\* C29: when no merged event has the incoming event's id, the incoming event
\* is linked to the first merged event, in insertion order, that is within
\* all four tolerances of it, also when a later merged event is nearer; no
\* other merged event is tagged, and none at all when no event is within
\* the tolerances.
C29_FirstFitInInsertionOrder ==
    (scan.pc = "on" /\ WithId(scan.candidate, scan.existing) = {})
       => LET fits == Fits(scan.candidate, scan.existing)
              first == IF fits = {} THEN 0 ELSE SetMin(fits)
          IN  /\ scan.found # -1 => scan.found = first
              /\ scan.merged # <<>>
                    => /\ Len(scan.merged) = 3
                       /\ scan.merged[3].id = scan.candidate.id
                       /\ Tagged(scan.merged)
                             = IF first = 0 THEN {} ELSE {first, 3}
                       /\ first # 0
                             => scan.merged[3].match_group
                                   = scan.merged[first].match_group

\* merged events at -90 s and 0 s, incoming event at 0 s with another id:
\* the first one is returned and tagged, the nearer second one is not
C29_Witness ==
    /\ scan.pc = "on"
    /\ WithId(scan.candidate, scan.existing) = {}
    /\ Fits(scan.candidate, scan.existing) = {1, 2}
    /\ Abs(scan.existing[2].time - scan.candidate.time)
          < Abs(scan.existing[1].time - scan.candidate.time)
    /\ scan.found = 1
    /\ Tagged(scan.merged) = {1, 3}

\* C30: an incoming event whose non-empty id is the id of a merged event is
\* linked to the first merged event of that id, whatever the time, magnitude
\* and coordinates of either, and also when an earlier merged event of
\* another id or a later one of the same id is within the tolerances.
C30_SameIdLinksDirectly ==
    (scan.pc = "on" /\ WithId(scan.candidate, scan.existing) # {})
       => LET first == SetMin(WithId(scan.candidate, scan.existing))
          IN  /\ scan.found # -1 => scan.found = first
              /\ scan.merged # <<>>
                    => /\ Len(scan.merged) = 3
                       /\ Tagged(scan.merged) = {first, 3}
                       /\ scan.merged[3].match_group
                             = scan.merged[first].match_group

\* the merged event of the same id is out of tolerance and second in the
\* list, the first merged event is within the tolerances: the second is linked
C30_Witness ==
    /\ scan.pc = "on"
    /\ WithId(scan.candidate, scan.existing) = {2}
    /\ Fits(scan.candidate, scan.existing) = {1}
    /\ scan.found = 2
    /\ Tagged(scan.merged) = {2, 3}
\* C31: fusion never changes a source: in the fused list every primary event
\* that entered without a source carries USGS, and every other event, matched
\* or not, carries the source it entered with.
Entered == fBase \o fKand \o fEmsc

C31_SourceNeverOverwritten ==
    fpc = "fused"
       => /\ Len(fOut) = Len(Entered)
          /\ \A i \in 1..Len(fOut) :
                /\ fOut[i].id = Entered[i].id
                /\ fOut[i].source
                      = IF i <= Len(fBase) /\ Entered[i].source = ""
                        THEN "USGS" ELSE Entered[i].source

\* a primary event without a source, a Kandilli event matched to it and an
\* unmatched EMSC event have been fused
C31_Witness ==
    /\ fpc = "fused"
    /\ Len(fBase) = 1 /\ Len(fKand) = 1 /\ Len(fEmsc) = 1
    /\ fBase[1].source = "" /\ fOut[1].source = "USGS"
    /\ fOut[2].source = "Kandilli" /\ fOut[2].match_group # 0
    /\ fOut[3].source = "EMSC" /\ fOut[3].match_group = 0
\* C32: every payload returned by get_earthquakes and every payload held by
\* the cache has a metadata.count, and it is the length of the payload's
\* features list.
Counted(payload) ==
    /\ payload.metadata.present
    /\ payload.metadata.count = Len(payload.features)

C32_CountIsNumberOfFeatures ==
    /\ \A p \in Procs :
          proc[p].pc = "done" => /\ Counted(proc[p].response)
                                /\ Counted(heap[proc[p].ret])
    /\ \A i \in 1..Len(cache) : Counted(heap[cache[i].obj])
\* C33: the cache gains or replaces an entry only in the step in which a call
\* that missed the cache, got its primary answer and fused it returns; a call
\* that fails leaves the cache as it was, and a cache hit leaves the entries
\* as they were.
CacheEntries(c) == {c[i] : i \in 1..Len(c)}

StoresAfter(p, primaries) ==
    /\ proc[p].pc = "gather" /\ proc'[p].pc = "done"
    /\ ~proc'[p].hit
    /\ proc'[p].primary \in primaries
    /\ CacheEntries(cache') \ CacheEntries(cache)
          = {[key |-> proc[p].key, obj |-> proc[p].data, expires |-> now + Ttl]}

C33_EntryOnlyAfterSuccessfulMiss ==
    [][ /\ \A p \in Procs :
             (proc[p].pc # "failed" /\ proc'[p].pc = "failed") => cache' = cache
        /\ \A p \in Procs :
             (proc'[p].id # proc[p].id /\ proc'[p].hit)
                => CacheEntries(cache') = CacheEntries(cache)
        /\ CacheEntries(cache') \ CacheEntries(cache) # {}
             => \E p \in Procs : StoresAfter(p, {"ok"}) ]_vars
\* C34: the cache lookup of a call answers only with an entry whose
\* time-to-live has not elapsed since it was stored; a call of a query whose
\* entry was stored Ttl or more seconds earlier misses and sends a primary
\* request.
StoredBefore(pr) == pr.servedAtCall # NoPayload

C34_ServedOnlyWithinTtl ==
    \A p \in Procs :
        Called(proc[p])
           => /\ proc[p].hit => /\ StoredBefore(proc[p])
                                /\ proc[p].inWindow
              /\ (StoredBefore(proc[p]) /\ ~proc[p].inWindow)
                    => /\ ~proc[p].hit
                       /\ "USGS" \in proc[p].requested

\* the entry of the query is still held by the cache, Ttl seconds after it
\* was stored, and the call has sent its primary request
C34_Witness ==
    \E p \in Procs :
        /\ StoredBefore(proc[p]) /\ proc[p].storedAtCall
        /\ ~proc[p].inWindow
        /\ ~proc[p].hit
        /\ proc[p].pc = "usgs"
        /\ proc[p].requested = {"USGS"}
\* C35: the fallback URL is requested once, after the primary URL, exactly
\* when the primary request raised or answered an error status; when the
\* fallback request fails as well its error leaves the adapter, Kandilli is
\* recorded ok=false with that error and no events, and nothing is raised
\* into get_earthquakes.
BothFailed(k) ==
    /\ Len(k.answers) = 2
    /\ RequestRaises(k.answers[1]) /\ RequestRaises(k.answers[2])

C35_FallbackRequestedOnce ==
    kf.pc # "off"
       => /\ Len(kf.answers) >= 1
             => kf.requests = IF RequestRaises(kf.answers[1])
                              THEN <<KANDILLI_URL, KANDILLI_FALLBACK_URL>>
                              ELSE <<KANDILLI_URL>>
          /\ Len(kf.answers) = 0 => kf.requests = <<KANDILLI_URL>>
          /\ Len(kf.answers) <= Len(kf.requests)
          /\ BothFailed(kf)
                => /\ kf.pc \in {"raised", "recorded"}
                   /\ kf.result.state = "exception"
                   /\ kf.result.error = Raised(kf.answers[2])
                   /\ kf.pc = "recorded"
                         => /\ kf.status = Status(FALSE, Raised(kf.answers[2]))
                            /\ kf.kandilli_features = << >>
          /\ (Len(kf.answers) = 2 /\ ~RequestRaises(kf.answers[2]) /\ kf.pc = "recorded")
                => kf.status = Status(TRUE, "")

\* the primary URL answered 503, the fallback request could not connect
C35_Witness ==
    /\ kf.pc = "recorded"
    /\ kf.requests = <<KANDILLI_URL, KANDILLI_FALLBACK_URL>>
    /\ kf.answers = <<Response(503, << >>), TransportError("ConnectError")>>
    /\ kf.status = Status(FALSE, "ConnectError")
    /\ kf.kandilli_features = << >>
\* C36: when calls do not overlap, a primary request that times out always
\* fails the call: the lookup of the call has missed, so at the timeout the
\* cache holds no unexpired entry of the key and the fallback branch is not
\* taken.
C36_NoFallbackWithoutOverlap ==
    \A p \in Procs :
        proc[p].primary = "timeout"
           => /\ ~proc[p].hit
              /\ proc[p].entry \in {"none", "expired"}
              /\ proc[p].pc = "failed"
              /\ proc[p].error = "USGS API timeout"
              /\ proc[p].ret = 0 /\ proc[p].response = NoPayload
              /\ proc[p].requested = {"USGS"}

\* the query was stored by an earlier call, the entry is still held by the
\* cache past its time-to-live, and the primary request of the call timed out
C36_Witness ==
    \E p \in Procs :
        /\ proc[p].primary = "timeout"
        /\ proc[p].storedAtCall /\ proc[p].entry = "expired"
        /\ proc[p].pc = "failed"
\* C37 as stated: a call whose end_time was read from the clock at an instant
\* of its own is not answered from the cache, sends a primary request, and
\* when it has ended the cache holds an entry that it added.
Ended(pr) == pr.pc \in {"done", "failed"}

AddedEntry(pr) ==
    \E i \in 1..Len(cache) : cache[i].key = pr.key /\ cache[i].obj = pr.id

C37_ClockQueryAlwaysAddsEntry ==
    \A p \in Procs :
        Called(proc[p])
           => /\ ~proc[p].hit
              /\ ~proc[p].storedAtCall
              /\ "USGS" \in proc[p].requested
              /\ Ended(proc[p]) => AddedEntry(proc[p])

\* C37 amended: such a call is not answered from the cache and sends a
\* primary request; when it returns a payload the cache holds an entry that
\* it added, and when its primary request fails it adds none.
C37_ClockQueryNeverHits ==
    \A p \in Procs :
        Called(proc[p])
           => /\ ~proc[p].hit
              /\ ~proc[p].storedAtCall
              /\ "USGS" \in proc[p].requested
              /\ proc[p].pc = "done" => AddedEntry(proc[p])
              /\ proc[p].pc = "failed" => ~AddedEntry(proc[p])

\* the second call, made while the entry of the first is unexpired, has
\* fetched and stored an entry of its own
C37_Witness ==
    \E p \in Procs :
        /\ proc[p].id = 2 /\ proc[p].pc = "done"
        /\ now < Ttl
        /\ ~proc[p].hit /\ AddedEntry(proc[p])
        /\ proc[p].query.end_time = UtcNow(now)
\* C38: dispatch raises for no client host, hosts containing ':' included,
\* and after a dispatch every key of request_counts is of the minute of that
\* dispatch or of the minute before it.
C38_DispatchNeverRaises ==
    (rl.pc = "on" /\ rl.last.nth >= 1)
       => /\ rl.last.answer \in {"forwarded", "429"}
          /\ \A k \in Present(rl.request_counts) :
                k[2] \in {rl.last.minute, rl.last.minute - 1}
====
